---- MODULE Spec2Model ----
(***************************************************************************)
(* A model of the shell parser of aliou/sh: the tokenizer                  *)
(* (src/tokenizer/tokenize.ts and its scanners) and the recursive-descent  *)
(* parser (src/parser/parser.ts), driven by parse().                       *)
(*                                                                         *)
(* Text is a sequence of one-character strings; positions are 0-based as   *)
(* in the source.  An exception is a non-empty err field that every caller *)
(* propagates unchanged.                                                   *)
(***************************************************************************)
EXTENDS Integers, Sequences, FiniteSets, TLC

VARIABLES source, keepComments, pc, ts, ps, body, error

vars == <<source, keepComments, pc, ts, ps, body, error>>

NL == "\n"
CR == "\r"
TAB == "\t"
BSL == "\\"
DQ == "\""
SQ == "'"
(* the backquote character (one sequence element, like every character) *)
BT == "bq"

EmptyRec == [k \in {} |-> 0]

(* `const v = ...` followed by Body: v is computed once and named in Body *)
With(v, Body(_)) == Body(v)

Min(a, b) == IF a < b THEN a ELSE b
Max(a, b) == IF a > b THEN a ELSE b

(* String.prototype.charAt: "" outside the string *)
At(s, p) == IF p >= 0 /\ p < Len(s) THEN s[p + 1] ELSE ""

(* String.prototype.slice for non-negative arguments *)
Slice(s, a, b) ==
  LET lo == Max(0, a)
      hi == Min(b, Len(s))
  IN IF hi <= lo THEN <<>> ELSE SubSeq(s, lo + 1, hi)

SliceFrom(s, a) == Slice(s, a, Len(s))

StartsWith(s, pat, pos) ==
  /\ pos + Len(pat) <= Len(s)
  /\ SubSeq(s, pos + 1, pos + Len(pat)) = pat

(* String.prototype.indexOf(ch, from): -1 when absent *)
RECURSIVE IndexOf(_, _, _)
IndexOf(s, ch, from) ==
  IF from >= Len(s) THEN -1
  ELSE IF At(s, from) = ch THEN from
  ELSE IndexOf(s, ch, from + 1)

(* String.prototype.indexOf(pat): -1 when absent *)
RECURSIVE IndexOfStr(_, _, _)
IndexOfStr(s, pat, from) ==
  IF from + Len(pat) > Len(s) THEN -1
  ELSE IF StartsWith(s, pat, from) THEN from
  ELSE IndexOfStr(s, pat, from + 1)

WhiteSpace == {" ", TAB, NL, CR}

(* String.prototype.trim *)
RECURSIVE TrimLeft(_)
TrimLeft(s) ==
  IF s # <<>> /\ Head(s) \in WhiteSpace THEN TrimLeft(Tail(s)) ELSE s

RECURSIVE TrimRight(_)
TrimRight(s) ==
  IF s # <<>> /\ s[Len(s)] \in WhiteSpace
  THEN TrimRight(SubSeq(s, 1, Len(s) - 1))
  ELSE s

Trim(s) == TrimRight(TrimLeft(s))

(* line.replace(/^\t+/, "") *)
RECURSIVE StripTabs(_)
StripTabs(s) == IF s # <<>> /\ Head(s) = TAB THEN StripTabs(Tail(s)) ELSE s

RECURSIVE Flatten(_)
Flatten(ss) == IF ss = <<>> THEN <<>> ELSE Head(ss) \o Flatten(Tail(ss))

(***************************************************************************)
(* src/tokenizer/charsets.ts                                               *)
(***************************************************************************)
operatorChars == {";", "|", "&"}
redirChars == {">", "<"}
symbolChars == {"(", ")", "{", "}"}

Digits == {"0", "1", "2", "3", "4", "5", "6", "7", "8", "9"}
Lower == {"a", "b", "c", "d", "e", "f", "g", "h", "i", "j", "k", "l", "m",
          "n", "o", "p", "q", "r", "s", "t", "u", "v", "w", "x", "y", "z"}
Upper == {"A", "B", "C", "D", "E", "F", "G", "H", "I", "J", "K", "L", "M",
          "N", "O", "P", "Q", "R", "S", "T", "U", "V", "W", "X", "Y", "Z"}

isDigit(c) == c \in Digits
isNameChar(c) == c \in Lower \cup Upper \cup Digits \cup {"_"}
isNameStart(c) == c \in Lower \cup Upper \cup {"_"}
specialParams == {"@", "*", "#", "?", "-", "$", "!"}

(***************************************************************************)
(* src/tokenizer/scan-redir.ts                                             *)
(***************************************************************************)
NoRedir == [op |-> "", len |-> 0]

(* the tests of tryRedirOp with the one-character operators first *)
tryRedirOpShortest(s, pos) ==
  IF At(s, pos) = ">" THEN [op |-> ">", len |-> 1]
  ELSE IF At(s, pos) = "<" THEN [op |-> "<", len |-> 1]
  ELSE IF StartsWith(s, <<"&", ">">>, pos) THEN [op |-> "&>", len |-> 2]
  ELSE NoRedir

tryRedirOp(s, pos) ==
  IF StartsWith(s, <<"<", "<", "<">>, pos) THEN [op |-> "<<<", len |-> 3]
  ELSE IF StartsWith(s, <<"&", ">", ">">>, pos) THEN [op |-> "&>>", len |-> 3]
  ELSE IF StartsWith(s, <<"<", "<", "-">>, pos) THEN [op |-> "<<-", len |-> 3]
  ELSE IF StartsWith(s, <<">", ">">>, pos) THEN [op |-> ">>", len |-> 2]
  ELSE IF StartsWith(s, <<">", "&">>, pos) THEN [op |-> ">&", len |-> 2]
  ELSE IF StartsWith(s, <<">", "|">>, pos) THEN [op |-> ">|", len |-> 2]
  ELSE IF StartsWith(s, <<"<", ">">>, pos) THEN [op |-> "<>", len |-> 2]
  ELSE IF StartsWith(s, <<"<", "&">>, pos) THEN [op |-> "<&", len |-> 2]
  ELSE IF StartsWith(s, <<"&", ">">>, pos) THEN [op |-> "&>", len |-> 2]
  ELSE IF StartsWith(s, <<"<", "<">>, pos) THEN [op |-> "<<", len |-> 2]
  ELSE IF At(s, pos) = ">" THEN [op |-> ">", len |-> 1]
  ELSE IF At(s, pos) = "<" THEN [op |-> "<", len |-> 1]
  ELSE NoRedir


(***************************************************************************)
(* src/tokenizer/scan-backtick.ts                                          *)
(***************************************************************************)
RECURSIVE BacktickEnd(_, _)
BacktickEnd(s, j) ==
  IF j < Len(s) /\ At(s, j) # BT
  THEN BacktickEnd(s, IF At(s, j) = BSL THEN j + 2 ELSE j + 1)
  ELSE j

scanBacktick(s, pos) ==
  With(BacktickEnd(s, pos + 1), LAMBDA j :
    [part |-> [type |-> "backtick", raw |-> Slice(s, pos + 1, j)],
     end |-> j + 1])

(***************************************************************************)
(* scanExpansion (src/tokenizer/scan-expansion.ts)                         *)
(***************************************************************************)
(* the loop of $(( ... )) and of (( ... )): stops at "))" at depth 0 *)
RECURSIVE ArithEnd(_, _, _)
ArithEnd(s, j, depth) ==
  IF j >= Len(s) THEN j
  ELSE IF At(s, j) = ")" /\ At(s, j + 1) = ")" /\ depth = 0 THEN j
  ELSE ArithEnd(s, j + 1,
                IF At(s, j) = "(" THEN depth + 1
                ELSE IF At(s, j) = ")" THEN depth - 1
                ELSE depth)

(* the depth loop of $( ... ), ${ ... } and <( ... ): one past the closer *)
RECURSIVE DepthEnd(_, _, _, _, _)
DepthEnd(s, j, depth, open, close) ==
  IF j < Len(s) /\ depth > 0
  THEN DepthEnd(s, j + 1,
                IF At(s, j) = open THEN depth + 1
                ELSE IF At(s, j) = close THEN depth - 1
                ELSE depth,
                open, close)
  ELSE j

RECURSIVE NameEnd(_, _)
NameEnd(s, j) ==
  IF j < Len(s) /\ isNameChar(At(s, j)) THEN NameEnd(s, j + 1) ELSE j

(* rest.match(/^(:-|:=|:\+|:\?|-|\+|=|\?|##|%%|#|%|\/\/|\/)/) *)
ParamOps ==
  << <<":", "-">>, <<":", "=">>, <<":", "+">>, <<":", "?">>,
     <<"-">>, <<"+">>, <<"=">>, <<"?">>,
     <<"#", "#">>, <<"%", "%">>, <<"#">>, <<"%">>,
     <<"/", "/">>, <<"/">> >>

RECURSIVE MatchParamOp(_, _)
MatchParamOp(rest, k) ==
  IF k > Len(ParamOps) THEN <<>>
  ELSE IF StartsWith(rest, ParamOps[k], 0) THEN ParamOps[k]
  ELSE MatchParamOp(rest, k + 1)

(* scan-expansion: the name, operator and value of the text between the    *)
(* braces; j is the end of the expansion                                   *)
bracedParam(inner, j) ==
  With(IF At(inner, 0) = "!" \/ At(inner, 0) = "#" THEN 1 ELSE 0,
       LAMBDA nameStart :
  With(NameEnd(inner, nameStart), LAMBDA nameEnd :
  With(SliceFrom(inner, nameEnd), LAMBDA rest :
  With(MatchParamOp(rest, 1), LAMBDA op :
    IF rest # <<>>
    THEN IF op # <<>>
         THEN [part |-> [type |-> "param",
                         name |-> Slice(inner, nameStart, nameEnd),
                         braced |-> TRUE,
                         op |-> op, value |-> SliceFrom(rest, Len(op))],
               end |-> j]
         ELSE [part |-> [type |-> "param", name |-> inner, braced |-> TRUE],
               end |-> j]
    ELSE [part |-> [type |-> "param",
                    name |-> Slice(inner, nameStart, nameEnd),
                    braced |-> TRUE],
          end |-> j]))))

scanBraced(s, pos) ==
  With(DepthEnd(s, pos + 2, 1, "{", "}"), LAMBDA j :
    bracedParam(Slice(s, pos + 2, j - 1), j))

(* end = -1 stands for the null result *)
NoExpansion == [part |-> EmptyRec, end |-> -1]

scanExpansion(s, pos) ==
  With(At(s, pos + 1), LAMBDA next :
    IF At(s, pos) # "$" THEN NoExpansion
    ELSE IF next = "(" /\ At(s, pos + 2) = "("
    THEN With(ArithEnd(s, pos + 3, 0), LAMBDA j :
           [part |-> [type |-> "arith-exp",
                      raw |-> Trim(Slice(s, pos + 3, j))],
            end |-> j + 2])
    ELSE IF next = "("
    THEN With(DepthEnd(s, pos + 2, 1, "(", ")"), LAMBDA j :
           [part |-> [type |-> "cmd-subst", raw |-> Slice(s, pos + 2, j - 1)],
            end |-> j])
    ELSE IF next = "{" THEN scanBraced(s, pos)
    ELSE IF isNameStart(next)
    THEN With(NameEnd(s, pos + 2), LAMBDA j :
           [part |-> [type |-> "param", name |-> Slice(s, pos + 1, j),
                      braced |-> FALSE],
            end |-> j])
    ELSE IF isDigit(next) \/ next \in specialParams
    THEN [part |-> [type |-> "param", name |-> <<next>>, braced |-> FALSE],
          end |-> pos + 2]
    ELSE NoExpansion)

(***************************************************************************)
(* tokenPartsText (src/tokenizer/utils.ts)                                 *)
(***************************************************************************)
RECURSIVE DblLitText(_)
DblLitText(parts) ==
  IF parts = <<>> THEN <<>>
  ELSE (IF Head(parts).type = "lit" THEN Head(parts).value ELSE <<>>)
       \o DblLitText(Tail(parts))

partText(p) ==
  IF p.type = "lit" \/ p.type = "sgl" THEN p.value
  ELSE IF p.type = "dbl" THEN DblLitText(p.parts)
  ELSE <<>>

RECURSIVE tokenPartsText(_)
tokenPartsText(parts) ==
  IF parts = <<>> THEN <<>>
  ELSE partText(Head(parts)) \o tokenPartsText(Tail(parts))

(***************************************************************************)
(* tokenize (src/tokenizer/tokenize.ts).                                   *)
(* A loop of the source is a recursive operator over its iteration         *)
(* operator; an iteration that neither ends the loop nor moves the         *)
(* position forward sets stuck and stops, standing for the endless loop.   *)
(***************************************************************************)
flushLit(parts, current) ==
  IF Len(current) > 0
  THEN Append(parts, [type |-> "lit", value |-> current])
  ELSE parts

(* the single-quote loop: position of the closing quote, or Len(s) *)
RECURSIVE SglEnd(_, _)
SglEnd(s, j) == IF j < Len(s) /\ At(s, j) # SQ THEN SglEnd(s, j + 1) ELSE j

(* tokenize.ts:273-284 and 308-319: "$" in a double quote or in a word,   *)
(* after the literal collected so far is flushed                           *)
dollar(s, d, exp, flushed) ==
  IF exp.end # -1
  THEN [d EXCEPT !.parts = Append(flushed, exp.part), !.buf = <<>>,
                 !.i = exp.end]
  ELSE [d EXCEPT !.parts = flushed, !.buf = <<"$">>, !.i = d.i + 1]

(* tokenize.ts:285-291 and 321-327 *)
backtick(d, bt, flushed) ==
  [d EXCEPT !.parts = Append(flushed, bt.part), !.buf = <<>>, !.i = bt.end]

(* one iteration of the double-quote loop, tokenize.ts:256-299 *)
DblIter(s, d) ==
  With(At(s, d.i), LAMBDA c :
    IF c = BSL /\ At(s, d.i + 1) = NL THEN [d EXCEPT !.i = d.i + 2]
    ELSE IF c = BSL /\ At(s, d.i + 1) = CR /\ At(s, d.i + 2) = NL
    THEN [d EXCEPT !.i = d.i + 3]
    ELSE IF c = BSL /\ d.i + 1 < Len(s)
    THEN [d EXCEPT !.buf = d.buf \o <<c, At(s, d.i + 1)>>, !.i = d.i + 2]
    ELSE IF c = "$"
    THEN dollar(s, d, scanExpansion(s, d.i), flushLit(d.parts, d.buf))
    ELSE IF c = BT
    THEN backtick(d, scanBacktick(s, d.i), flushLit(d.parts, d.buf))
    ELSE IF c = DQ THEN [d EXCEPT !.i = d.i + 1, !.closed = TRUE]
    ELSE [d EXCEPT !.buf = d.buf \o <<c>>, !.i = d.i + 1])

DblNext(d, n) == IF n.i <= d.i THEN [n EXCEPT !.stuck = TRUE] ELSE n

RECURSIVE DblLoop(_, _)
DblLoop(s, d) ==
  IF d.i >= Len(s) \/ d.closed \/ d.stuck THEN d
  ELSE DblLoop(s, DblNext(d, DblIter(s, d)))

(* tokenize.ts:229-242 *)
sglQuote(s, w, e, flushed) ==
  IF e >= Len(s)
  THEN [w EXCEPT !.parts = flushed, !.buf = <<>>, !.i = e,
                 !.err = "Unclosed single quote"]
  ELSE [w EXCEPT !.parts = Append(flushed,
                                  [type |-> "sgl",
                                   value |-> Slice(s, w.i + 1, e)]),
                 !.buf = <<>>, !.i = e + 1]

(* tokenize.ts:244-306 *)
dblQuote(w, d, flushed) ==
  IF d.stuck THEN [w EXCEPT !.stuck = TRUE]
  ELSE IF ~d.closed
  THEN [w EXCEPT !.parts = flushed, !.buf = <<>>, !.i = d.i,
                 !.err = "Unclosed double quote"]
  ELSE [w EXCEPT !.parts = Append(flushed,
                                  [type |-> "dbl",
                                   parts |-> flushLit(d.parts, d.buf)]),
                 !.buf = <<>>, !.i = d.i]

(* one iteration of the word loop, tokenize.ts:202-331; buf is `current` *)
WordIter(s, w) ==
  With(At(s, w.i), LAMBDA c :
    IF c = BSL /\ At(s, w.i + 1) = NL THEN [w EXCEPT !.i = w.i + 2]
    ELSE IF c = BSL /\ At(s, w.i + 1) = CR /\ At(s, w.i + 2) = NL
    THEN [w EXCEPT !.i = w.i + 3]
    ELSE IF c \in {" ", TAB, CR, NL} \cup operatorChars \cup redirChars
                  \cup symbolChars
    THEN [w EXCEPT !.brk = TRUE]
    ELSE IF c = SQ
    THEN sglQuote(s, w, SglEnd(s, w.i + 1), flushLit(w.parts, w.buf))
    ELSE IF c = DQ
    THEN dblQuote(w,
                  DblLoop(s, [i |-> w.i + 1, parts |-> <<>>, buf |-> <<>>,
                              closed |-> FALSE, stuck |-> FALSE]),
                  flushLit(w.parts, w.buf))
    ELSE IF c = "$"
    THEN dollar(s, w, scanExpansion(s, w.i), flushLit(w.parts, w.buf))
    ELSE IF c = BT
    THEN backtick(w, scanBacktick(s, w.i), flushLit(w.parts, w.buf))
    ELSE [w EXCEPT !.buf = w.buf \o <<c>>, !.i = w.i + 1])

WordNext(w, n) ==
  IF n.brk \/ n.err # "" \/ n.stuck THEN n
  ELSE IF n.i <= w.i THEN [n EXCEPT !.stuck = TRUE]
  ELSE n

RECURSIVE WordLoop(_, _)
WordLoop(s, w) ==
  IF w.i >= Len(s) \/ w.brk \/ w.err # "" \/ w.stuck THEN w
  ELSE WordLoop(s, WordNext(w, WordIter(s, w)))

(* tokenize.ts:42-61: the << and <<- redirects not yet collected that a   *)
(* word token follows, in token order                                      *)
IsPendingAt(tokens, ti) ==
  /\ tokens[ti].type = "redir"
  /\ tokens[ti].op \in {"<<", "<<-"}
  /\ "_collected" \notin DOMAIN tokens[ti]
  /\ ti + 1 <= Len(tokens)
  /\ tokens[ti + 1].type = "word"

RECURSIVE pendingHeredocs(_, _)
pendingHeredocs(tokens, ti) ==
  IF ti > Len(tokens) THEN <<>>
  ELSE (IF IsPendingAt(tokens, ti)
        THEN << [strip |-> tokens[ti].op = "<<-",
                 delimiter |-> tokenPartsText(tokens[ti + 1].parts)] >>
        ELSE <<>>)
       \o pendingHeredocs(tokens, ti + 1)

(* the scan that marks no redirect as collected *)
markNothing(tokens) == tokens

markCollected(tokens) ==
  [ti \in 1..Len(tokens) |->
     IF IsPendingAt(tokens, ti)
     THEN tokens[ti] @@ [_collected |-> TRUE]
     ELSE tokens[ti]]

(* tokenize.ts:69-74: the line from h.i to lineEnd *)
heredocLine(s, hd, h, lineEnd, checkLine) ==
  [h EXCEPT !.i = IF lineEnd < Len(s) THEN lineEnd + 1 ELSE lineEnd,
            !.brk = (checkLine = hd.delimiter),
            !.body = IF checkLine = hd.delimiter THEN h.body
                     ELSE h.body \o checkLine \o <<NL>>]

(* one iteration of the heredoc line loop, tokenize.ts:66-75 *)
HeredocIter(s, hd, h) ==
  With(IndexOf(s, NL, h.i), LAMBDA found :
  With(IF found = -1 THEN Len(s) ELSE found, LAMBDA lineEnd :
  With(Slice(s, h.i, lineEnd), LAMBDA line :
    heredocLine(s, hd, h, lineEnd,
                IF hd.strip THEN StripTabs(line) ELSE line))))

HeredocNext(h, n) ==
  IF n.brk THEN n
  ELSE IF n.i <= h.i THEN [n EXCEPT !.stuck = TRUE]
  ELSE n

RECURSIVE HeredocLoop(_, _, _)
HeredocLoop(s, hd, h) ==
  IF h.i >= Len(s) \/ h.brk \/ h.stuck THEN h
  ELSE HeredocLoop(s, hd, HeredocNext(h, HeredocIter(s, hd, h)))

pushBody(st, h) ==
  [st EXCEPT !.i = h.i, !.stuck = h.stuck,
             !.tokens = Append(st.tokens,
                               [type |-> "heredoc-body", content |-> h.body])]

(* tokenize.ts:64-77: one heredoc-body token per pending heredoc *)
RECURSIVE collectBodies(_, _, _)
collectBodies(s, hds, st) ==
  IF hds = <<>> \/ st.stuck THEN st
  ELSE collectBodies(s, Tail(hds),
         pushBody(st, HeredocLoop(s, Head(hds),
                                  [i |-> st.i, body |-> <<>>, brk |-> FALSE,
                                   stuck |-> FALSE])))

RECURSIVE CommentEnd(_, _)
CommentEnd(s, j) ==
  IF j < Len(s) /\ At(s, j) # NL THEN CommentEnd(s, j + 1) ELSE j

RECURSIVE DigitsEnd(_, _)
DigitsEnd(s, j) ==
  IF j < Len(s) /\ isDigit(At(s, j)) THEN DigitsEnd(s, j + 1) ELSE j

(* which branch of the main loop the character at i takes, in the order   *)
(* of the tests of tokenize.ts:17-190                                      *)
branchOf(s, st, ch, n1) ==
  IF ch \in {" ", TAB, CR} THEN "blank"
  ELSE IF ch = BSL /\ n1 = NL THEN "continuation"
  ELSE IF ch = BSL /\ n1 = CR /\ At(s, st.i + 2) = NL THEN "continuation"
  ELSE IF ch = NL THEN "newline"
  ELSE IF ch = "#" /\ st.atBoundary THEN "comment"
  ELSE IF ch = "!" /\ st.atBoundary THEN "bang"
  ELSE IF isDigit(ch) /\ tryRedirOp(s, DigitsEnd(s, st.i)).len > 0
  THEN "fdredir"
  ELSE IF ch = "(" /\ n1 = "(" /\ st.atBoundary THEN "arith"
  ELSE IF ch \in {"<", ">"} /\ n1 = "(" /\ st.atBoundary THEN "procsubst"
  ELSE IF tryRedirOp(s, st.i).len > 0 THEN "redir"
  ELSE IF ch \in symbolChars THEN "symbol"
  ELSE IF StartsWith(s, <<"&", "&">>, st.i) THEN "andor"
  ELSE IF StartsWith(s, <<"|", "|">>, st.i) THEN "andor"
  ELSE IF ch \in operatorChars THEN "operator"
  ELSE "word"

Branch(s, st) == branchOf(s, st, At(s, st.i), At(s, st.i + 1))

push(st, tok, nexti, boundary) ==
  [st EXCEPT !.tokens = Append(st.tokens, tok), !.i = nexti,
             !.atBoundary = boundary]

(* the blank branch without its i += 1 *)
stepBlankInPlace(s, st) == [st EXCEPT !.atBoundary = TRUE]

stepBlank(s, st) == [st EXCEPT !.i = st.i + 1, !.atBoundary = TRUE]

stepContinuation(s, st) ==
  [st EXCEPT !.i = IF At(s, st.i + 1) = NL THEN st.i + 2 ELSE st.i + 3,
             !.atBoundary = TRUE]

stepNewline(s, st) ==
  With(Append(st.tokens, [type |-> "op", value |-> ";"]), LAMBDA pushed :
    collectBodies(s, pendingHeredocs(pushed, 1),
      [st EXCEPT !.tokens = markCollected(pushed), !.i = st.i + 1,
                 !.atBoundary = TRUE]))

stepComment(s, st, keep) ==
  With(CommentEnd(s, st.i + 1), LAMBDA e :
    IF keep
    THEN [st EXCEPT !.tokens = Append(st.tokens,
                                      [type |-> "comment",
                                       text |-> Slice(s, st.i + 1, e)]),
                    !.i = e]
    ELSE [st EXCEPT !.i = e])

stepBang(s, st) == push(st, [type |-> "op", value |-> "!"], st.i + 1, TRUE)

fdRedir(s, st, j, redir) ==
  push(st, [type |-> "redir", op |-> redir.op, fd |-> Slice(s, st.i, j)],
       j + redir.len, TRUE)

stepFdRedir(s, st) ==
  With(DigitsEnd(s, st.i), LAMBDA j : fdRedir(s, st, j, tryRedirOp(s, j)))

stepArith(s, st) ==
  With(ArithEnd(s, st.i + 2, 0), LAMBDA j :
    push(st, [type |-> "arith-cmd", expr |-> Trim(Slice(s, st.i + 2, j))],
         j + 2, TRUE))

stepProcSubst(s, st) ==
  With(DepthEnd(s, st.i + 2, 1, "(", ")"), LAMBDA j :
    push(st, [type |-> "word",
              parts |-> << [type |-> "proc-subst", op |-> At(s, st.i),
                            raw |-> Slice(s, st.i + 2, j - 1)] >>],
         j, FALSE))

stepRedir(s, st) ==
  With(tryRedirOp(s, st.i), LAMBDA redir :
    push(st, [type |-> "redir", op |-> redir.op], st.i + redir.len, TRUE))

stepSymbol(s, st) ==
  push(st, [type |-> "symbol", value |-> At(s, st.i)], st.i + 1, TRUE)

stepAndOr(s, st) ==
  push(st, [type |-> "op",
            value |-> IF At(s, st.i) = "&" THEN "&&" ELSE "||"],
       st.i + 2, TRUE)

stepOperator(s, st) ==
  push(st, [type |-> "op", value |-> At(s, st.i)], st.i + 1, TRUE)

(* tokenize.ts:333-340 *)
pushWord(st, w, parts) ==
  IF w.stuck THEN [st EXCEPT !.stuck = TRUE]
  ELSE IF w.err # "" THEN [st EXCEPT !.i = w.i, !.err = w.err]
  ELSE IF Len(parts) = 0
  THEN [st EXCEPT !.i = w.i, !.err = "Unexpected character"]
  ELSE push(st, [type |-> "word", parts |-> parts], w.i, FALSE)

stepWord(s, st) ==
  With(WordLoop(s, [i |-> st.i, parts |-> <<>>, buf |-> <<>>,
                    brk |-> FALSE, err |-> "", stuck |-> FALSE]),
       LAMBDA w : pushWord(st, w, flushLit(w.parts, w.buf)))

(* one iteration of the main loop, tokenize.ts:14-341 *)
stepOf(s, st, keep, b) ==
  CASE b = "blank" -> stepBlank(s, st)
    [] b = "continuation" -> stepContinuation(s, st)
    [] b = "newline" -> stepNewline(s, st)
    [] b = "comment" -> stepComment(s, st, keep)
    [] b = "bang" -> stepBang(s, st)
    [] b = "fdredir" -> stepFdRedir(s, st)
    [] b = "arith" -> stepArith(s, st)
    [] b = "procsubst" -> stepProcSubst(s, st)
    [] b = "redir" -> stepRedir(s, st)
    [] b = "symbol" -> stepSymbol(s, st)
    [] b = "andor" -> stepAndOr(s, st)
    [] b = "operator" -> stepOperator(s, st)
    [] OTHER -> stepWord(s, st)

TokStep(s, st, keep) == stepOf(s, st, keep, Branch(s, st))

TokInit == [i |-> 0, atBoundary |-> TRUE, tokens |-> <<>>, err |-> "",
            stuck |-> FALSE]

TokRunning(s, st) == st.i < Len(s) /\ st.err = "" /\ ~st.stuck

TokNext(st, n) ==
  IF n.err = "" /\ ~n.stuck /\ n.i <= st.i THEN [n EXCEPT !.stuck = TRUE]
  ELSE n

(* tokenize(source, options) as the parser calls it on a raw slice *)
RECURSIVE TokLoop(_, _, _)
TokLoop(s, st, keep) ==
  IF ~TokRunning(s, st) THEN st
  ELSE TokLoop(s, TokNext(st, TokStep(s, st, keep)), keep)

tokenize(s, keep) == TokLoop(s, TokInit, keep)

(***************************************************************************)
(* Parser (src/parser/parser.ts).                                          *)
(* The parser state p holds index and comments, and err (the message of    *)
(* the exception thrown, "" while none) and stuck.  Every routine returns  *)
(* [p, v]: the state after it and the value it returns.                    *)
(***************************************************************************)
Nil == [type |-> "nil"]
NoTok == [type |-> "eof"]

PInit == [idx |-> 0, comments |-> <<>>, err |-> "", stuck |-> FALSE]

(* bad: the call threw (p.err) or never returns (p.stuck) *)
Ret(p, v) == [p |-> p, v |-> v, bad |-> p.err # "" \/ p.stuck]
Fail(p, msg) == [p |-> [p EXCEPT !.err = msg], v |-> Nil, bad |-> TRUE]
Stuck(p) == [p |-> [p EXCEPT !.stuck = TRUE], v |-> Nil, bad |-> TRUE]
Bad(r) == r.bad
Prop(r) == [p |-> r.p, v |-> Nil, bad |-> r.bad]

(* the statements after a call that may throw: K runs when r returned *)
Try(r, K(_)) == IF r.bad THEN Prop(r) ELSE K(r)

(* the result r of one iteration of a loop entered at p: the loop goes on  *)
(* for ever when the iteration returns without consuming a token           *)
Progress(p, r) ==
  IF r.bad THEN Prop(r)
  ELSE IF r.p.idx <= p.idx THEN Stuck(r.p)
  ELSE r

Advance(p) == [p EXCEPT !.idx = p.idx + 1]

(* the end test that also holds once two tokens are consumed *)
isEofEarly(toks, p) == p.idx >= Len(toks) \/ p.idx >= 2

isEof(toks, p) == p.idx >= Len(toks)
peekToken(toks, p, offset) ==
  IF p.idx + offset < Len(toks) THEN toks[p.idx + offset + 1] ELSE NoTok
peek(toks, p) == peekToken(toks, p, 0)

consume(toks, p) ==
  IF isEof(toks, p) THEN Fail(p, "Unexpected end of input")
  ELSE Ret(Advance(p), toks[p.idx + 1])

IsOp(tok, value) == tok.type = "op" /\ tok.value = value
IsSymbol(tok, value) == tok.type = "symbol" /\ tok.value = value

matchOp(toks, p, value) == IsOp(peek(toks, p), value)
peekOp(toks, p, value) == IsOp(peekToken(toks, p, 1), value)
matchWord(toks, p) == peek(toks, p).type = "word"
matchRedir(toks, p) == peek(toks, p).type = "redir"
matchComment(toks, p) == peek(toks, p).type = "comment"
matchArithCmd(toks, p) == peek(toks, p).type = "arith-cmd"
matchSymbol(toks, p, value) == IsSymbol(peek(toks, p), value)

IsKeywordToken(tok, value) ==
  /\ tok.type = "word"
  /\ Len(tok.parts) = 1
  /\ tok.parts[1].type = "lit"
  /\ tok.parts[1].value = value

matchKeyword(toks, p, value) == IsKeywordToken(peek(toks, p), value)
matchKeywordIn(toks, p, values) ==
  \E k \in 1..Len(values) : matchKeyword(toks, p, values[k])

kwIf == <<"i", "f">>
kwThen == <<"t", "h", "e", "n">>
kwElif == <<"e", "l", "i", "f">>
kwElse == <<"e", "l", "s", "e">>
kwFi == <<"f", "i">>
kwWhile == <<"w", "h", "i", "l", "e">>
kwUntil == <<"u", "n", "t", "i", "l">>
kwDo == <<"d", "o">>
kwDone == <<"d", "o", "n", "e">>
kwFor == <<"f", "o", "r">>
kwIn == <<"i", "n">>
kwSelect == <<"s", "e", "l", "e", "c", "t">>
kwCase == <<"c", "a", "s", "e">>
kwEsac == <<"e", "s", "a", "c">>
kwTime == <<"t", "i", "m", "e">>
kwCoproc == <<"c", "o", "p", "r", "o", "c">>
kwFunction == <<"f", "u", "n", "c", "t", "i", "o", "n">>
kwLet == <<"l", "e", "t">>
kwTestOpen == <<"[", "[">>
kwTestClose == <<"]", "]">>

DECL_KEYWORDS ==
  { <<"d", "e", "c", "l", "a", "r", "e">>, <<"l", "o", "c", "a", "l">>,
    <<"e", "x", "p", "o", "r", "t">>,
    <<"r", "e", "a", "d", "o", "n", "l", "y">>,
    <<"t", "y", "p", "e", "s", "e", "t">>,
    <<"n", "a", "m", "e", "r", "e", "f">> }

IsDeclToken(tok) ==
  /\ tok.type = "word"
  /\ Len(tok.parts) = 1
  /\ tok.parts[1].type = "lit"
  /\ tok.parts[1].value \in DECL_KEYWORDS

matchDeclKeyword(toks, p) == IsDeclToken(peek(toks, p))

looksLikeFuncDecl(toks, p) ==
  /\ peek(toks, p).type = "word"
  /\ IsSymbol(peekToken(toks, p, 1), "(")
  /\ IsSymbol(peekToken(toks, p, 2), ")")
  /\ IsSymbol(peekToken(toks, p, 3), "{")

consumeSymbol(toks, p, value) ==
  Try(consume(toks, p), LAMBDA r :
    IF ~IsSymbol(r.v, value) THEN Fail(r.p, "Expected symbol") ELSE r)

(* `Expected keyword ${value}` for the keywords a caller demands without   *)
(* having matched them first                                               *)
ExpectedKeyword(value) ==
  CASE value = kwThen -> "Expected keyword then"
    [] value = kwFi -> "Expected keyword fi"
    [] value = kwDo -> "Expected keyword do"
    [] value = kwDone -> "Expected keyword done"
    [] value = kwIn -> "Expected keyword in"
    [] value = kwEsac -> "Expected keyword esac"
    [] OTHER -> "Expected keyword"

consumeKeyword(toks, p, value) ==
  Try(consume(toks, p), LAMBDA r :
    IF ~IsKeywordToken(r.v, value) THEN Fail(r.p, ExpectedKeyword(value))
    ELSE r)

consumeComment(toks, p) ==
  [p EXCEPT !.idx = p.idx + 1,
            !.comments = Append(p.comments,
                                [type |-> "Comment", text |-> peek(toks, p).text])]

RECURSIVE skipSeparators(_, _)
skipSeparators(toks, p) ==
  IF matchComment(toks, p) THEN skipSeparators(toks, consumeComment(toks, p))
  ELSE IF matchOp(toks, p, ";") THEN skipSeparators(toks, Advance(p))
  ELSE p

RECURSIVE skipCaseSeparators(_, _)
skipCaseSeparators(toks, p) ==
  IF matchOp(toks, p, ";") /\ ~peekOp(toks, p, ";")
  THEN skipCaseSeparators(toks, Advance(p))
  ELSE p

isCaseItemEnd(toks, p) == matchOp(toks, p, ";") /\ peekOp(toks, p, ";")

LitWord(text) ==
  [type |-> "Word", parts |-> << [type |-> "Literal", value |-> text] >>]

(* /^[A-Za-z_][A-Za-z0-9_]*$/.test(name) *)
IsIdentifier(name) ==
  /\ Len(name) > 0
  /\ isNameStart(name[1])
  /\ \A k \in 2..Len(name) : isNameChar(name[k])

RECURSIVE parseProgram(_, _)
RECURSIVE parseStatement(_, _)
RECURSIVE parseCommandAtom(_, _)
RECURSIVE parseElifClause(_, _)
RECURSIVE convertWordPart(_, _)
RECURSIVE convertParts(_, _, _)

(* parts.map((part) => this.convertWordPart(part)): left to right, the     *)
(* first exception ends it                                                 *)
convertParts(p, parts, acc) ==
  IF parts = <<>> THEN Ret(p, acc)
  ELSE Try(convertWordPart(p, Head(parts)), LAMBDA r :
         convertParts(p, Tail(parts), Append(acc, r.v)))

(* what the inner tokenizer t and the inner parser r give the outer one *)
innerResult(p, t, r) ==
  IF t.stuck \/ t.err # ""
  THEN IF t.stuck THEN Stuck(p) ELSE Fail(p, t.err)
  ELSE IF r.bad
  THEN IF r.p.stuck THEN Stuck(p) ELSE Fail(p, r.p.err)
  ELSE Ret(p, r.v.body)

(* tokenize(part.raw); new Parser(innerTokens).parseProgram(): no options  *)
(* are passed on and the inner parser's comments are not read              *)
parseInner(p, raw) ==
  With(tokenize(raw, FALSE), LAMBDA t :
    innerResult(p, t,
                IF t.stuck \/ t.err # "" THEN Ret(PInit, Nil)
                ELSE parseProgram(t.tokens, FALSE)))

convertWordPart(p, part) ==
  CASE part.type = "lit" ->
         Ret(p, [type |-> "Literal", value |-> part.value])
    [] part.type = "sgl" ->
         Ret(p, [type |-> "SglQuoted", value |-> part.value])
    [] part.type = "dbl" ->
         Try(convertParts(p, part.parts, <<>>), LAMBDA r :
           Ret(p, [type |-> "DblQuoted", parts |-> r.v]))
    [] part.type = "param" ->
         Ret(p, [type |-> "ParamExp", short |-> ~part.braced,
                 param |-> [type |-> "Literal", value |-> part.name]]
                @@ (IF "op" \in DOMAIN part /\ part.op # <<>>
                    THEN [op |-> part.op] ELSE EmptyRec)
                @@ (IF "value" \in DOMAIN part
                    THEN [value |-> LitWord(part.value)] ELSE EmptyRec))
    [] part.type = "arith-exp" ->
         Ret(p, [type |-> "ArithExp", expr |-> part.raw])
    [] OTHER ->
         Try(parseInner(p, part.raw), LAMBDA r :
           IF part.type = "proc-subst"
           THEN Ret(p, [type |-> "ProcSubst", op |-> part.op,
                        stmts |-> r.v])
           ELSE Ret(p, [type |-> "CmdSubst", stmts |-> r.v]))

wordFromParts(p, parts) ==
  Try(convertParts(p, parts, <<>>), LAMBDA r :
    Ret(p, [type |-> "Word", parts |-> r.v]))

(* the match of text against the pattern "[", one or more characters      *)
(* other than "]", "]=", then any characters but line terminators: the     *)
(* position of the "]" when the text matches, -1 otherwise                 *)
indexMatch(text) ==
  With(IndexOf(text, "]", 1), LAMBDA k :
    IF /\ At(text, 0) = "["
       /\ k >= 2
       /\ At(text, k + 1) = "="
       /\ \A q \in k + 3..Len(text) : text[q] \notin {NL, CR}
    THEN k ELSE -1)

(* parser.ts:857-877: an element written [index]=value *)
indexedElem(text, k) ==
  [type |-> "ArrayElem", index |-> LitWord(Slice(text, 1, k))]
  @@ (IF Len(text) > k + 2
      THEN [value |-> LitWord(SliceFrom(text, k + 2))]
      ELSE EmptyRec)

(* parser.ts:856-884: the element of the word token that c consumed *)
arrayElem(c, elems, text, k) ==
  IF k # -1 THEN Ret(c.p, Append(elems, indexedElem(text, k)))
  ELSE Try(wordFromParts(c.p, c.v.parts), LAMBDA w :
         Ret(c.p, Append(elems, [type |-> "ArrayElem", value |-> w.v])))

(* one iteration of the loop of parseArrayAssignment, parser.ts:839-884 *)
ArrayIter(toks, p, elems) ==
  IF isEof(toks, p) THEN Fail(p, "Unclosed array expression")
  ELSE IF matchOp(toks, p, ";") THEN Ret(Advance(p), elems)
  ELSE IF matchComment(toks, p) THEN Ret(consumeComment(toks, p), elems)
  ELSE Try(consume(toks, p), LAMBDA c :
         IF c.v.type # "word"
         THEN Fail(c.p, "Expected word in array expression")
         ELSE With(tokenPartsText(c.v.parts), LAMBDA text :
                arrayElem(c, elems, text, indexMatch(text))))

RECURSIVE ArrayLoop(_, _, _)
ArrayLoop(toks, p, elems) ==
  IF matchSymbol(toks, p, ")") THEN Ret(p, elems)
  ELSE Try(Progress(p, ArrayIter(toks, p, elems)), LAMBDA r :
         ArrayLoop(toks, r.p, r.v))

parseArrayAssignment(toks, p, name, append) ==
  Try(consumeSymbol(toks, p, "("), LAMBDA o :
  Try(ArrayLoop(toks, o.p, <<>>), LAMBDA l :
  Try(consumeSymbol(toks, l.p, ")"), LAMBDA c :
    Ret(c.p, [type |-> "Assignment", name |-> name,
              array |-> [type |-> "ArrayExpr", elems |-> l.v]]
             @@ (IF append THEN [append |-> TRUE] ELSE EmptyRec)))))

(* parser.ts:797-803: the index of the "+=" or "=" that ends the name *)
eqIndexOf(raw, plusEq) ==
  IF plusEq > 0 THEN [append |-> TRUE, eqIndex |-> plusEq]
  ELSE [append |-> FALSE, eqIndex |-> IndexOf(raw, "=", 0)]

assignEqIndex(raw) == eqIndexOf(raw, IndexOfStr(raw, <<"+", "=">>, 0))

(* parser.ts:810-832 *)
assignment(toks, p, e, name, afterEq) ==
  IF ~IsIdentifier(name) THEN Ret(p, Nil)
  ELSE IF afterEq = <<>> /\ IsSymbol(peekToken(toks, p, 1), "(")
  THEN parseArrayAssignment(toks, Advance(p), name, e.append)
  ELSE Ret(Advance(p),
           [type |-> "Assignment", name |-> name]
           @@ (IF e.append THEN [append |-> TRUE] ELSE EmptyRec)
           @@ (IF Len(afterEq) > 0
               THEN [value |-> LitWord(afterEq)] ELSE EmptyRec))

(* v = Nil stands for undefined: nothing was consumed *)
tryParseAssignment(toks, p, parts) ==
  IF Len(parts) # 1 THEN Ret(p, Nil)
  ELSE IF parts[1].type # "lit" THEN Ret(p, Nil)
  ELSE With(assignEqIndex(parts[1].value), LAMBDA e :
         IF e.eqIndex <= 0 THEN Ret(p, Nil)
         ELSE assignment(toks, p, e, Slice(parts[1].value, 0, e.eqIndex),
                         SliceFrom(parts[1].value,
                                   e.eqIndex + (IF e.append THEN 2 ELSE 1))))

(* parser.ts:680-697: the Redirect of operator token t and target w, with  *)
(* the heredoc body when a heredoc-body token follows the separators       *)
redirectNode(t, w) ==
  [type |-> "Redirect", op |-> t.op, target |-> w]
  @@ (IF "fd" \in DOMAIN t /\ t.fd # <<>> THEN [fd |-> t.fd] ELSE EmptyRec)

heredocBodyDropped(toks, sk, redirect) ==
  IF peek(toks, sk).type = "heredoc-body"
  THEN Ret(Advance(sk), redirect)
  ELSE Ret(sk, redirect)

heredocBody(toks, sk, redirect) ==
  IF peek(toks, sk).type = "heredoc-body"
  THEN Ret(Advance(sk),
           redirect @@ [heredoc |-> LitWord(peek(toks, sk).content)])
  ELSE Ret(sk, redirect)

(* the redirect branch of parseSimpleCommand (parser.ts:670-698, heredoc   *)
(* TRUE) and of parseDeclClause and parseLetClause (parser.ts:556-571 and  *)
(* 606-621, heredoc FALSE: they never look for a heredoc-body)             *)
parseRedirect(toks, p, heredoc) ==
  Try(consume(toks, p), LAMBDA t :
  Try(consume(toks, t.p), LAMBDA g :
    IF g.v.type # "word"
    THEN Fail(g.p, "Redirect must be followed by a word")
    ELSE Try(wordFromParts(g.p, g.v.parts), LAMBDA w :
           IF heredoc /\ t.v.op \in {"<<", "<<-"}
           THEN heredocBody(toks, skipSeparators(toks, g.p),
                            redirectNode(t.v, w.v))
           ELSE Ret(g.p, redirectNode(t.v, w.v)))))

(* parser.ts:664-667 *)
simpleWord(toks, p, c) ==
  Try(wordFromParts(Advance(p), peek(toks, p).parts), LAMBDA w :
    Ret(w.p, [c EXCEPT !.sawWord = TRUE, !.words = Append(c.words, w.v)]))

(* the iteration without the sawWord test of parser.ts:656 *)
SimpleIterAnywhere(toks, p, c) ==
  IF matchWord(toks, p)
  THEN Try(tryParseAssignment(toks, p, peek(toks, p).parts), LAMBDA a :
         IF a.v # Nil
         THEN Ret(a.p, [c EXCEPT !.assignments = Append(c.assignments, a.v)])
         ELSE simpleWord(toks, p, c))
  ELSE IF matchRedir(toks, p)
  THEN Try(parseRedirect(toks, p, TRUE), LAMBDA r :
         Ret(r.p, [c EXCEPT !.redirects = Append(c.redirects, r.v)]))
  ELSE Ret(p, [c EXCEPT !.brk = TRUE])

(* one iteration of the loop of parseSimpleCommand, parser.ts:648-702 *)
SimpleIter(toks, p, c) ==
  IF matchWord(toks, p)
  THEN IF c.sawWord THEN simpleWord(toks, p, c)
       ELSE Try(tryParseAssignment(toks, p, peek(toks, p).parts), LAMBDA a :
              IF a.v # Nil
              THEN Ret(a.p, [c EXCEPT !.assignments =
                                        Append(c.assignments, a.v)])
              ELSE simpleWord(toks, p, c))
  ELSE IF matchRedir(toks, p)
  THEN Try(parseRedirect(toks, p, TRUE), LAMBDA r :
         Ret(r.p, [c EXCEPT !.redirects = Append(c.redirects, r.v)]))
  ELSE Ret(p, [c EXCEPT !.brk = TRUE])

(* the result r of an iteration of a while (true) loop that ends by break *)
ProgressOrBreak(p, r) ==
  IF r.bad THEN Prop(r)
  ELSE IF r.v.brk THEN r
  ELSE IF r.p.idx <= p.idx THEN Stuck(r.p)
  ELSE r

RECURSIVE SimpleLoop(_, _, _)
SimpleLoop(toks, p, c) ==
  Try(ProgressOrBreak(p, SimpleIter(toks, p, c)), LAMBDA r :
    IF r.v.brk THEN r ELSE SimpleLoop(toks, r.p, r.v))

OptField(name, list) == IF Len(list) > 0 THEN name :> list ELSE EmptyRec

(* parseSimpleCommand without the test of parser.ts:704-710 *)
parseSimpleCommandUnchecked(toks, p) ==
  Try(SimpleLoop(toks, p, [words |-> <<>>, assignments |-> <<>>,
                           redirects |-> <<>>, sawWord |-> FALSE,
                           brk |-> FALSE]),
      LAMBDA l :
    Ret(l.p, [type |-> "SimpleCommand"]
             @@ OptField("words", l.v.words)
             @@ OptField("assignments", l.v.assignments)
             @@ OptField("redirects", l.v.redirects)))

parseSimpleCommand(toks, p) ==
  Try(SimpleLoop(toks, p, [words |-> <<>>, assignments |-> <<>>,
                           redirects |-> <<>>, sawWord |-> FALSE,
                           brk |-> FALSE]),
      LAMBDA l :
    IF /\ Len(l.v.words) = 0
       /\ Len(l.v.assignments) = 0
       /\ Len(l.v.redirects) = 0
    THEN Fail(l.p, "Expected a command word")
    ELSE Ret(l.p, [type |-> "SimpleCommand"]
                  @@ OptField("words", l.v.words)
                  @@ OptField("assignments", l.v.assignments)
                  @@ OptField("redirects", l.v.redirects)))

Stmt(command) == [type |-> "Statement", command |-> command]

(* `Unexpected end of input while looking for ${endKeywords.join(", ")}` *)
UnclosedStructure(endKeywords) ==
  CASE endKeywords = <<kwThen>> ->
         "Unexpected end of input while looking for then"
    [] endKeywords = <<kwElse, kwElif, kwFi>> ->
         "Unexpected end of input while looking for else, elif, fi"
    [] endKeywords = <<kwFi>> ->
         "Unexpected end of input while looking for fi"
    [] endKeywords = <<kwDo>> ->
         "Unexpected end of input while looking for do"
    [] endKeywords = <<kwDone>> ->
         "Unexpected end of input while looking for done"

UnclosedGroup(endSymbol) ==
  IF endSymbol = ")" THEN "Unexpected end of input while looking for )"
  ELSE "Unexpected end of input while looking for }"

(* body.push(this.parseStatement()); this.skipSeparators(): one iteration  *)
(* of the loops of parseProgram, parseStatementsUntilKeyword and           *)
(* parseStatementList, entered at p                                        *)
StatementIter(toks, p) ==
  Try(parseStatement(toks, p), LAMBDA r : Ret(skipSeparators(toks, r.p), r.v))

(* the loop of parseStatementsUntilKeyword, parser.ts:525-533 *)
RECURSIVE UntilKeywordLoop(_, _, _, _)
UntilKeywordLoop(toks, p, endKeywords, acc) ==
  IF matchKeywordIn(toks, p, endKeywords) THEN Ret(p, acc)
  ELSE IF isEof(toks, p) THEN Fail(p, UnclosedStructure(endKeywords))
  ELSE Try(Progress(p, StatementIter(toks, p)), LAMBDA r :
         UntilKeywordLoop(toks, r.p, endKeywords, Append(acc, r.v)))

parseStatementsUntilKeyword(toks, p, endKeywords) ==
  UntilKeywordLoop(toks, skipSeparators(toks, p), endKeywords, <<>>)

(* the loop of parseStatementList, parser.ts:207-215 *)
RECURSIVE StatementListLoop(_, _, _, _)
StatementListLoop(toks, p, endSymbol, acc) ==
  IF matchSymbol(toks, p, endSymbol) THEN Ret(p, acc)
  ELSE IF isEof(toks, p) THEN Fail(p, UnclosedGroup(endSymbol))
  ELSE Try(Progress(p, StatementIter(toks, p)), LAMBDA r :
         StatementListLoop(toks, r.p, endSymbol, Append(acc, r.v)))

parseStatementList(toks, p, endSymbol) ==
  StatementListLoop(toks, skipSeparators(toks, p), endSymbol, <<>>)

parseGroup(toks, p, open, close, type) ==
  Try(consumeSymbol(toks, p, open), LAMBDA o :
  Try(parseStatementList(toks, o.p, close), LAMBDA b :
  Try(consumeSymbol(toks, b.p, close), LAMBDA c :
    Ret(c.p, [type |-> type, body |-> b.v]))))

parseSubshell(toks, p) == parseGroup(toks, p, "(", ")", "Subshell")
parseBlock(toks, p) == parseGroup(toks, p, "{", "}", "Block")

(* parser.ts:237-250: an array is truthy, also when it is empty *)
IfNode(cond, then, hasElse, else) ==
  IF hasElse
  THEN [type |-> "IfClause", cond |-> cond, then |-> then, else |-> else]
  ELSE [type |-> "IfClause", cond |-> cond, then |-> then]

(* parser.ts:221-250 and 255-283: condition, then-branch and the optional  *)
(* else-branch, after the `if` or `elif`                                   *)
parseIfBranches(toks, p) ==
  Try(parseStatementsUntilKeyword(toks, p, <<kwThen>>), LAMBDA cond :
  Try(consumeKeyword(toks, cond.p, kwThen), LAMBDA t :
  Try(parseStatementsUntilKeyword(toks, t.p, <<kwElse, kwElif, kwFi>>),
      LAMBDA th :
    IF matchKeyword(toks, th.p, kwElif)
    THEN Try(parseElifClause(toks, th.p), LAMBDA e :
           Ret(e.p, IfNode(cond.v, th.v, TRUE, <<Stmt(e.v)>>)))
    ELSE IF matchKeyword(toks, th.p, kwElse)
    THEN Try(parseStatementsUntilKeyword(toks, Advance(th.p), <<kwFi>>),
             LAMBDA e : Ret(e.p, IfNode(cond.v, th.v, TRUE, e.v)))
    ELSE Ret(th.p, IfNode(cond.v, th.v, FALSE, <<>>)))))

parseIfClause(toks, p) ==
  Try(consumeKeyword(toks, p, kwIf), LAMBDA k :
  Try(parseIfBranches(toks, k.p), LAMBDA b :
  Try(consumeKeyword(toks, b.p, kwFi), LAMBDA f : Ret(f.p, b.v))))

(* an elif clause that ends at a fi of its own *)
parseElifClauseClosed(toks, p) ==
  Try(consumeKeyword(toks, p, kwElif), LAMBDA k :
  Try(parseIfBranches(toks, k.p), LAMBDA b :
  Try(consumeKeyword(toks, b.p, kwFi), LAMBDA f : Ret(f.p, b.v))))

parseElifClause(toks, p) ==
  Try(consumeKeyword(toks, p, kwElif), LAMBDA k : parseIfBranches(toks, k.p))

(* `do` body `done`, the tail of while, for, select and the C-style loop *)
parseDoBody(toks, p) ==
  Try(consumeKeyword(toks, p, kwDo), LAMBDA d :
  Try(parseStatementsUntilKeyword(toks, d.p, <<kwDone>>), LAMBDA b :
  Try(consumeKeyword(toks, b.p, kwDone), LAMBDA e : Ret(e.p, b.v))))

parseWhileClause(toks, p, until) ==
  Try(consumeKeyword(toks, p, IF until THEN kwUntil ELSE kwWhile), LAMBDA k :
  Try(parseStatementsUntilKeyword(toks, k.p, <<kwDo>>), LAMBDA cond :
  Try(parseDoBody(toks, cond.p), LAMBDA b :
    Ret(b.p, [type |-> "WhileClause", cond |-> cond.v, body |-> b.v]
             @@ (IF until THEN [until |-> TRUE] ELSE EmptyRec)))))

(* the item loop of for and select, parser.ts:314-320 and 373-379 *)
RECURSIVE ItemLoop(_, _, _)
ItemLoop(toks, p, collected) ==
  IF matchWord(toks, p) /\ ~matchKeyword(toks, p, kwDo)
  THEN Try(Progress(p, wordFromParts(Advance(p), peek(toks, p).parts)),
           LAMBDA w : ItemLoop(toks, w.p, Append(collected, w.v)))
  ELSE Ret(p, collected)

(* parser.ts:321-327: the optional ";", the separators *)
skipSemi(toks, p) ==
  skipSeparators(toks, IF matchOp(toks, p, ";") THEN Advance(p) ELSE p)

(* parser.ts:305-334 and 364-393: name, optional items, body *)
parseForLike(toks, p, type, nameError) ==
  Try(consume(toks, p), LAMBDA n :
    IF n.v.type # "word" THEN Fail(n.p, nameError)
    ELSE Try(IF matchKeyword(toks, n.p, kwIn)
             THEN ItemLoop(toks, Advance(n.p), <<>>)
             ELSE Ret(n.p, <<>>),
             LAMBDA items :
         Try(parseDoBody(toks, skipSemi(toks, items.p)), LAMBDA b :
           Ret(b.p, [type |-> type, name |-> tokenPartsText(n.v.parts),
                     body |-> b.v]
                    @@ OptField("items", items.v)))))

(* expr.split(";") *)
RECURSIVE SplitSemi(_, _)
SplitSemi(expr, seg) ==
  IF expr = <<>> THEN <<seg>>
  ELSE IF Head(expr) = ";" THEN <<seg>> \o SplitSemi(Tail(expr), <<>>)
  ELSE SplitSemi(Tail(expr), Append(seg, Head(expr)))

(* parts[k] || undefined, after the trim *)
loopPart(name, parts, k) ==
  OptField(name, IF k <= Len(parts) THEN Trim(parts[k]) ELSE <<>>)

parseCStyleLoop(toks, p) ==
  Try(consume(toks, p), LAMBDA t :
    IF t.v.type # "arith-cmd" THEN Fail(t.p, "Expected (( )) in c-style for")
    ELSE Try(parseDoBody(toks, skipSemi(toks, t.p)), LAMBDA b :
           With(SplitSemi(t.v.expr, <<>>), LAMBDA parts :
             Ret(b.p, [type |-> "CStyleLoop", body |-> b.v]
                      @@ loopPart("init", parts, 1)
                      @@ loopPart("cond", parts, 2)
                      @@ loopPart("post", parts, 3)))))

parseForOrCStyleLoop(toks, p) ==
  Try(consumeKeyword(toks, p, kwFor), LAMBDA k :
    IF matchArithCmd(toks, k.p) THEN parseCStyleLoop(toks, k.p)
    ELSE parseForLike(toks, k.p, "ForClause", "Expected loop variable name"))

parseSelectClause(toks, p) ==
  Try(consumeKeyword(toks, p, kwSelect), LAMBDA k :
    parseForLike(toks, k.p, "SelectClause", "Expected select variable name"))

(* parser.ts:404-413: the optional "()" and the body block *)
functionBody(toks, p, name) ==
  Try(IF matchSymbol(toks, p, "(") THEN consumeSymbol(toks, Advance(p), ")")
      ELSE Ret(p, Nil),
      LAMBDA par :
    IF matchSymbol(toks, par.p, "{")
    THEN Try(parseBlock(toks, par.p), LAMBDA b :
           Ret(b.p, [type |-> "FunctionDecl", name |-> name,
                     body |-> b.v.body]))
    ELSE Fail(par.p, "Expected function body block"))

parseFunctionDecl(toks, p) ==
  Try(consume(toks, IF matchKeyword(toks, p, kwFunction) THEN Advance(p)
                    ELSE p),
      LAMBDA n :
    IF n.v.type # "word" THEN Fail(n.p, "Expected function name")
    ELSE functionBody(toks, n.p, tokenPartsText(n.v.parts)))

(* the loop of parseCaseItemBody, parser.ts:508-514 *)
RECURSIVE CaseBodyLoop(_, _, _)
CaseBodyLoop(toks, p, acc) ==
  IF ~matchKeyword(toks, p, kwEsac) /\ ~isCaseItemEnd(toks, p)
  THEN Try(Progress(p, parseStatement(toks, p)), LAMBDA r :
         IF isCaseItemEnd(toks, r.p) THEN Ret(r.p, Append(acc, r.v))
         ELSE CaseBodyLoop(toks, skipCaseSeparators(toks, r.p),
                           Append(acc, r.v)))
  ELSE Ret(p, acc)

parseCaseItemBody(toks, p) ==
  CaseBodyLoop(toks, skipCaseSeparators(toks, p), <<>>)

(* the pattern loop of parseCaseClause, parser.ts:428-442 *)
RECURSIVE PatternLoop(_, _, _)
PatternLoop(toks, p, patterns) ==
  IF matchSymbol(toks, p, ")") THEN Ret(p, patterns)
  ELSE IF matchWord(toks, p)
  THEN Try(Progress(p, wordFromParts(Advance(p), peek(toks, p).parts)),
           LAMBDA w : PatternLoop(toks, w.p, Append(patterns, w.v)))
  ELSE IF matchOp(toks, p, "|") THEN PatternLoop(toks, Advance(p), patterns)
  ELSE Fail(p, "Expected case pattern or )")

(* parser.ts:446-450: the ";;" after an item, the separators *)
skipItemEnd(toks, p) ==
  skipSeparators(toks, IF isCaseItemEnd(toks, p)
                       THEN [p EXCEPT !.idx = p.idx + 2] ELSE p)

(* one iteration of the item loop of parseCaseClause, parser.ts:427-450 *)
CaseItemIter(toks, p) ==
  Try(PatternLoop(toks, p, <<>>), LAMBDA pat :
  Try(consumeSymbol(toks, pat.p, ")"), LAMBDA c :
  Try(parseCaseItemBody(toks, c.p), LAMBDA b :
    Ret(skipItemEnd(toks, b.p),
        [type |-> "CaseItem", patterns |-> pat.v, body |-> b.v]))))

RECURSIVE CaseItemLoop(_, _, _)
CaseItemLoop(toks, p, items) ==
  IF matchKeyword(toks, p, kwEsac) THEN Ret(p, items)
  ELSE Try(Progress(p, CaseItemIter(toks, p)), LAMBDA r :
         CaseItemLoop(toks, r.p, Append(items, r.v)))

parseCaseClause(toks, p) ==
  Try(consumeKeyword(toks, p, kwCase), LAMBDA k :
  Try(consume(toks, k.p), LAMBDA w :
    IF w.v.type # "word" THEN Fail(w.p, "Expected case word")
    ELSE Try(wordFromParts(w.p, w.v.parts), LAMBDA word :
         Try(consumeKeyword(toks, w.p, kwIn), LAMBDA in :
         Try(CaseItemLoop(toks, skipSeparators(toks, in.p), <<>>), LAMBDA l :
         Try(consumeKeyword(toks, l.p, kwEsac), LAMBDA e :
           Ret(e.p, [type |-> "CaseClause", word |-> word.v,
                     items |-> l.v])))))))

parseTimeClause(toks, p) ==
  Try(consumeKeyword(toks, p, kwTime), LAMBDA k :
  Try(parseStatement(toks, k.p), LAMBDA c :
    Ret(c.p, [type |-> "TimeClause", command |-> c.v])))

(* the loop of parseTestClause, parser.ts:465-470 *)
RECURSIVE TestLoop(_, _, _)
TestLoop(toks, p, words) ==
  IF matchKeyword(toks, p, kwTestClose) THEN Ret(p, words)
  ELSE IF isEof(toks, p) THEN Fail(p, "Unclosed [[")
  ELSE IF peek(toks, p).type # "word"
  THEN Fail(Advance(p), "Expected word in [[ ]]")
  ELSE Try(Progress(p, wordFromParts(Advance(p), peek(toks, p).parts)),
           LAMBDA w : TestLoop(toks, w.p, Append(words, w.v)))

parseTestClause(toks, p) ==
  Try(consumeKeyword(toks, p, kwTestOpen), LAMBDA k :
  Try(TestLoop(toks, k.p, <<>>), LAMBDA l :
  Try(consumeKeyword(toks, l.p, kwTestClose), LAMBDA c :
    Ret(c.p, [type |-> "TestClause", expr |-> l.v]))))

consumeArithCmd(toks, p) ==
  Try(consume(toks, p), LAMBDA t :
    IF t.v.type # "arith-cmd" THEN Fail(t.p, "Expected arithmetic command")
    ELSE Ret(t.p, [type |-> "ArithCmd", expr |-> t.v.expr]))

(* parser.ts:488-499: the name of the coproc, when a word and "{" follow *)
coprocNamed(toks, p) ==
  matchWord(toks, p) /\ IsSymbol(peekToken(toks, p, 1), "{")

parseCoprocClause(toks, p) ==
  Try(consumeKeyword(toks, p, kwCoproc), LAMBDA k :
  Try(parseStatement(toks, IF coprocNamed(toks, k.p) THEN Advance(k.p)
                           ELSE k.p),
      LAMBDA b :
    Ret(b.p, [type |-> "CoprocClause", body |-> b.v]
             @@ (IF coprocNamed(toks, k.p)
                 THEN [name |-> tokenPartsText(peek(toks, k.p).parts)]
                 ELSE EmptyRec))))

(* parser.ts:583-585 and 624-626: a plain word of a declaration or let *)
plainWord(toks, p, c, field) ==
  Try(wordFromParts(Advance(p), peek(toks, p).parts), LAMBDA w :
    Ret(w.p, [c EXCEPT ![field] = Append(c[field], w.v)]))

redirectInto(toks, p, c) ==
  Try(parseRedirect(toks, p, FALSE), LAMBDA r :
    Ret(r.p, [c EXCEPT !.redirects = Append(c.redirects, r.v)]))

(* one iteration of the loop of parseDeclClause, parser.ts:555-591 *)
DeclIter(toks, p, c) ==
  IF matchRedir(toks, p) THEN redirectInto(toks, p, c)
  ELSE IF matchWord(toks, p)
  THEN Try(tryParseAssignment(toks, p, peek(toks, p).parts), LAMBDA a :
         IF a.v # Nil
         THEN Ret(a.p, [c EXCEPT !.assigns = Append(c.assigns, a.v)])
         ELSE plainWord(toks, p, c, "args"))
  ELSE Ret(p, [c EXCEPT !.brk = TRUE])

RECURSIVE DeclLoop(_, _, _)
DeclLoop(toks, p, c) ==
  Try(ProgressOrBreak(p, DeclIter(toks, p, c)), LAMBDA r :
    IF r.v.brk THEN r ELSE DeclLoop(toks, r.p, r.v))

parseDeclClause(toks, p) ==
  Try(consume(toks, p), LAMBDA v :
    IF v.v.type # "word" THEN Fail(v.p, "Expected decl keyword")
    ELSE Try(DeclLoop(toks, v.p, [args |-> <<>>, assigns |-> <<>>,
                                  redirects |-> <<>>, brk |-> FALSE]),
             LAMBDA l :
           Ret(l.p, [type |-> "DeclClause",
                     variant |-> tokenPartsText(v.v.parts)]
                    @@ OptField("args", l.v.args)
                    @@ OptField("assigns", l.v.assigns)
                    @@ OptField("redirects", l.v.redirects))))

(* one iteration of the loop of parseLetClause, parser.ts:605-631 *)
LetIter(toks, p, c) ==
  IF matchRedir(toks, p) THEN redirectInto(toks, p, c)
  ELSE IF matchWord(toks, p) THEN plainWord(toks, p, c, "exprs")
  ELSE Ret(p, [c EXCEPT !.brk = TRUE])

RECURSIVE LetLoop(_, _, _)
LetLoop(toks, p, c) ==
  Try(ProgressOrBreak(p, LetIter(toks, p, c)), LAMBDA r :
    IF r.v.brk THEN r ELSE LetLoop(toks, r.p, r.v))

parseLetClause(toks, p) ==
  Try(consumeKeyword(toks, p, kwLet), LAMBDA k :
  Try(LetLoop(toks, k.p, [exprs |-> <<>>, redirects |-> <<>>,
                          brk |-> FALSE]),
      LAMBDA l :
    IF Len(l.v.exprs) = 0
    THEN Fail(l.p, "let requires at least one expression")
    ELSE Ret(l.p, [type |-> "LetClause", exprs |-> l.v.exprs]
                  @@ OptField("redirects", l.v.redirects))))

(* the tests of the source in their order: a token is at most one of the *)
(* keywords, so the keyword tests are the arms of one CASE; the test for  *)
(* NAME ( ) { comes after them, and after it the token is at most one of   *)
(* an arithmetic command, "(", "{", a declaration keyword and let          *)
parseCommandAtom(toks, p) ==
  CASE matchKeyword(toks, p, kwIf) -> parseIfClause(toks, p)
    [] matchKeyword(toks, p, kwWhile) -> parseWhileClause(toks, p, FALSE)
    [] matchKeyword(toks, p, kwUntil) -> parseWhileClause(toks, p, TRUE)
    [] matchKeyword(toks, p, kwFor) -> parseForOrCStyleLoop(toks, p)
    [] matchKeyword(toks, p, kwSelect) -> parseSelectClause(toks, p)
    [] matchKeyword(toks, p, kwCase) -> parseCaseClause(toks, p)
    [] matchKeyword(toks, p, kwTime) -> parseTimeClause(toks, p)
    [] matchKeyword(toks, p, kwCoproc) -> parseCoprocClause(toks, p)
    [] matchKeyword(toks, p, kwTestOpen) -> parseTestClause(toks, p)
    [] matchKeyword(toks, p, kwFunction) -> parseFunctionDecl(toks, p)
    [] OTHER ->
         IF looksLikeFuncDecl(toks, p) THEN parseFunctionDecl(toks, p)
         ELSE CASE matchArithCmd(toks, p) -> consumeArithCmd(toks, p)
                [] matchSymbol(toks, p, "(") -> parseSubshell(toks, p)
                [] matchSymbol(toks, p, "{") -> parseBlock(toks, p)
                [] matchDeclKeyword(toks, p) -> parseDeclClause(toks, p)
                [] matchKeyword(toks, p, kwLet) -> parseLetClause(toks, p)
                [] OTHER -> parseSimpleCommand(toks, p)

(* the loop of parsePipeline, parser.ts:133-137 *)
RECURSIVE PipelineLoop(_, _, _)
PipelineLoop(toks, p, commands) ==
  IF matchOp(toks, p, "|")
  THEN Try(Progress(p, parseCommandAtom(toks, Advance(p))), LAMBDA n :
         PipelineLoop(toks, n.p, Append(commands, Stmt(n.v))))
  ELSE Ret(p, commands)

(* parsePipeline without the early return of parser.ts:128-130 *)
parsePipelineAlways(toks, p) ==
  Try(parseCommandAtom(toks, p), LAMBDA first :
    Try(PipelineLoop(toks, first.p, <<Stmt(first.v)>>), LAMBDA l :
      Ret(l.p, [type |-> "Pipeline", commands |-> l.v])))

parsePipeline(toks, p) ==
  Try(parseCommandAtom(toks, p), LAMBDA first :
    IF ~matchOp(toks, first.p, "|") THEN first
    ELSE Try(PipelineLoop(toks, first.p, <<Stmt(first.v)>>), LAMBDA l :
           Ret(l.p, [type |-> "Pipeline", commands |-> l.v])))

(* the loop of parseLogical, parser.ts:110-122 *)
RECURSIVE LogicalLoop(_, _, _)
(* the loop with "|" binding looser than "&&" and "||": the operator takes *)
(* the first command of the pipeline at its right only                     *)
LogicalLoopLoose(toks, p, leftCommand) ==
  IF matchOp(toks, p, "&&") \/ matchOp(toks, p, "||")
  THEN Try(Progress(p, parsePipeline(toks, Advance(p))), LAMBDA r :
         LogicalLoop(toks, r.p,
           IF r.v.type = "Pipeline"
           THEN [type |-> "Pipeline",
                 commands |->
                   << Stmt([type |-> "Logical",
                            op |-> IF peek(toks, p).value = "&&"
                                   THEN "and" ELSE "or",
                            left |-> Stmt(leftCommand),
                            right |-> Head(r.v.commands)]) >>
                   \o Tail(r.v.commands)]
           ELSE [type |-> "Logical",
                 op |-> IF peek(toks, p).value = "&&" THEN "and" ELSE "or",
                 left |-> Stmt(leftCommand), right |-> Stmt(r.v)]))
  ELSE Ret(p, leftCommand)

(* the loop associating to the right: the right operand is the rest of    *)
(* the chain                                                               *)
LogicalLoopRight(toks, p, leftCommand) ==
  IF matchOp(toks, p, "&&") \/ matchOp(toks, p, "||")
  THEN Try(Progress(p, parsePipeline(toks, Advance(p))), LAMBDA r :
       Try(LogicalLoop(toks, r.p, r.v), LAMBDA rest :
         Ret(rest.p,
             [type |-> "Logical",
              op |-> IF peek(toks, p).value = "&&" THEN "and" ELSE "or",
              left |-> Stmt(leftCommand), right |-> Stmt(rest.v)])))
  ELSE Ret(p, leftCommand)

LogicalLoop(toks, p, leftCommand) ==
  IF matchOp(toks, p, "&&") \/ matchOp(toks, p, "||")
  THEN Try(Progress(p, parsePipeline(toks, Advance(p))), LAMBDA r :
         LogicalLoop(toks, r.p,
           [type |-> "Logical",
            op |-> IF peek(toks, p).value = "&&" THEN "and" ELSE "or",
            left |-> Stmt(leftCommand), right |-> Stmt(r.v)]))
  ELSE Ret(p, leftCommand)

parseLogical(toks, p) ==
  Try(parsePipeline(toks, p), LAMBDA l : LogicalLoop(toks, l.p, l.v))

(* the Statement with "!" put on the left operand and "&" on the right     *)
(* operand of a Logical                                                    *)
statementOfOperands(toks, c, negated, background) ==
  Ret(IF background THEN Advance(c.p) ELSE c.p,
      IF c.v.type = "Logical"
      THEN Stmt([c.v EXCEPT
                   !.left = @ @@ (IF negated THEN [negated |-> TRUE]
                                  ELSE EmptyRec),
                   !.right = @ @@ (IF background THEN [background |-> TRUE]
                                   ELSE EmptyRec)])
      ELSE Stmt(c.v)
           @@ (IF background THEN [background |-> TRUE] ELSE EmptyRec)
           @@ (IF negated THEN [negated |-> TRUE] ELSE EmptyRec))

(* parser.ts:95-105: the optional "&" and the Statement *)
statementOf(toks, c, negated, background) ==
  Ret(IF background THEN Advance(c.p) ELSE c.p,
      Stmt(c.v)
      @@ (IF background THEN [background |-> TRUE] ELSE EmptyRec)
      @@ (IF negated THEN [negated |-> TRUE] ELSE EmptyRec))

parseStatement(toks, p) ==
  Try(parseLogical(toks, IF matchOp(toks, p, "!") THEN Advance(p) ELSE p),
      LAMBDA c :
    statementOf(toks, c, matchOp(toks, p, "!"), matchOp(toks, c.p, "&")))

RECURSIVE ProgramLoop(_, _, _)
ProgramLoop(toks, p, acc) ==
  IF isEof(toks, p) THEN Ret(p, acc)
  ELSE Try(Progress(p, StatementIter(toks, p)), LAMBDA r :
         ProgramLoop(toks, r.p, Append(acc, r.v)))

(* parser.ts:57-61 *)
ProgramNode(stmts, comments, keep) ==
  [type |-> "Program", body |-> stmts]
  @@ (IF keep /\ Len(comments) > 0 THEN [comments |-> comments]
      ELSE EmptyRec)

parseProgram(toks, keep) ==
  Try(ProgramLoop(toks, skipSeparators(toks, PInit), <<>>), LAMBDA l :
    Ret(l.p, ProgramNode(l.v, l.p.comments, keep)))

(* assertEof, parser.ts:64-84 *)
assertEof(toks, p) ==
  IF ~isEof(toks, p) THEN [p EXCEPT !.err = "Unexpected token"] ELSE p

(* what parse does with the tokens t: parseProgram, assertEof, the result *)
parsed(t, r) ==
  IF Bad(r) THEN [err |-> r.p.err, stuck |-> r.p.stuck, ast |-> Nil]
  ELSE IF ~isEof(t.tokens, r.p)
  THEN [err |-> assertEof(t.tokens, r.p).err, stuck |-> FALSE, ast |-> Nil]
  ELSE [err |-> "", stuck |-> FALSE, ast |-> r.v]

(* parse(source, options): [err, stuck, ast], err # "" for a thrown Error *)
parse(s, keep) ==
  With(tokenize(s, keep), LAMBDA t :
    IF t.stuck \/ t.err # ""
    THEN [err |-> t.err, stuck |-> t.stuck, ast |-> Nil]
    ELSE parsed(t, parseProgram(t.tokens, keep)))

(***************************************************************************)
(* parse() as a state machine: the main loop of tokenize, one action per   *)
(* branch; then the loop of parseProgram, one action per statement; then   *)
(* assertEof.  pc is "failed" after an exception (error holds its          *)
(* message), "stuck" in a loop that does not advance, "done" after the     *)
(* return; body and ps.comments then make the Program.                     *)
(***************************************************************************)
Tokenizing(b) ==
  /\ pc = "tokenize"
  /\ TokRunning(source, ts)
  /\ Branch(source, ts) = b

TokResult(n) ==
  /\ ts' = n
  /\ pc' = IF n.stuck \/ (n.err = "" /\ n.i <= ts.i) THEN "stuck"
           ELSE IF n.err # "" THEN "failed"
           ELSE "tokenize"
  /\ error' = n.err
  /\ UNCHANGED <<source, keepComments, ps, body>>

TokBlank == Tokenizing("blank") /\ TokResult(stepBlank(source, ts))
TokContinuation ==
  Tokenizing("continuation") /\ TokResult(stepContinuation(source, ts))
TokNewline == Tokenizing("newline") /\ TokResult(stepNewline(source, ts))
TokComment ==
  Tokenizing("comment") /\ TokResult(stepComment(source, ts, keepComments))
TokBang == Tokenizing("bang") /\ TokResult(stepBang(source, ts))
TokFdRedir == Tokenizing("fdredir") /\ TokResult(stepFdRedir(source, ts))
TokArith == Tokenizing("arith") /\ TokResult(stepArith(source, ts))
TokProcSubst == Tokenizing("procsubst") /\ TokResult(stepProcSubst(source, ts))
TokRedir == Tokenizing("redir") /\ TokResult(stepRedir(source, ts))
TokSymbol == Tokenizing("symbol") /\ TokResult(stepSymbol(source, ts))
TokAndOr == Tokenizing("andor") /\ TokResult(stepAndOr(source, ts))
TokOperator == Tokenizing("operator") /\ TokResult(stepOperator(source, ts))
TokWord == Tokenizing("word") /\ TokResult(stepWord(source, ts))

(* tokenize returns; parseProgram starts with skipSeparators, parser.ts:52 *)
ParseStart ==
  /\ pc = "tokenize"
  /\ ts.i >= Len(source)
  /\ pc' = "parse"
  /\ ps' = skipSeparators(ts.tokens, PInit)
  /\ UNCHANGED <<source, keepComments, ts, body, error>>

StatementResult(r) ==
  /\ ps' = r.p
  /\ pc' = IF r.p.stuck \/ (r.p.err = "" /\ r.p.idx <= ps.idx) THEN "stuck"
           ELSE IF r.p.err # "" THEN "failed"
           ELSE "parse"
  /\ error' = r.p.err
  /\ body' = IF Bad(r) THEN body ELSE Append(body, r.v)
  /\ UNCHANGED <<source, keepComments, ts>>

(* one iteration of the loop of parseProgram, parser.ts:53-56 *)
ParseStatementStep ==
  /\ pc = "parse"
  /\ ~isEof(ts.tokens, ps)
  /\ StatementResult(StatementIter(ts.tokens, ps))

ParseReturn ==
  /\ pc = "parse"
  /\ isEof(ts.tokens, ps)
  /\ pc' = "assert"
  /\ UNCHANGED <<source, keepComments, ts, ps, body, error>>

AssertResult(e) ==
  /\ ps' = e
  /\ error' = e.err
  /\ pc' = IF e.err # "" THEN "failed" ELSE "done"
  /\ UNCHANGED <<source, keepComments, ts, body>>

AssertEof == pc = "assert" /\ AssertResult(assertEof(ts.tokens, ps))

Next ==
  \/ TokBlank \/ TokContinuation \/ TokNewline \/ TokComment \/ TokBang
  \/ TokFdRedir \/ TokArith \/ TokProcSubst \/ TokRedir \/ TokSymbol
  \/ TokAndOr \/ TokOperator \/ TokWord
  \/ ParseStart \/ ParseStatementStep \/ ParseReturn \/ AssertEof

(* the Program that parse returns, once pc = "done" *)
ast == ProgramNode(body, ps.comments, keepComments)

Start(inputs) ==
  /\ source \in inputs
  /\ keepComments \in BOOLEAN
  /\ pc = "tokenize"
  /\ ts = TokInit
  /\ ps = PInit
  /\ body = <<>>
  /\ error = ""


(* the concatenations of at most n of the given fragments *)
Pieces(frags, n) ==
  { Flatten(f) : f \in UNION { [1..k -> frags] : k \in 0..n } }

(* one source that takes every branch of the main loop *)
AllBranches ==
  { <<"!", " ", "a", " ", "2", ">", "b", " ", BSL, NL, "(", "(", "x", ")", ")", " ", "<", "(", "c", ")", " ", ">", "d", " ", "(", "e", ")", " ", "&", "&", " ", "f", " ", "|", " ", "g", " ", "#", " ", "h", NL, "i">> }


(***************************************************************************)
(* Reading an AST (the node types of src/ast.ts).                          *)
(***************************************************************************)
(* the nodes a node holds, in source order *)
Opt(n, f) == IF f \in DOMAIN n THEN n[f] ELSE <<>>
Opt1(n, f) == IF f \in DOMAIN n THEN <<n[f]>> ELSE <<>>

Kids(n) ==
  CASE n.type \in {"Program", "Subshell", "Block", "FunctionDecl",
                   "CStyleLoop"} -> n.body
    [] n.type \in {"Statement", "TimeClause"} -> <<n.command>>
    [] n.type = "CoprocClause" -> <<n.body>>
    [] n.type = "Pipeline" -> n.commands
    [] n.type = "Logical" -> <<n.left, n.right>>
    [] n.type = "SimpleCommand" ->
         Opt(n, "assignments") \o Opt(n, "words") \o Opt(n, "redirects")
    [] n.type = "IfClause" -> n.cond \o n.then \o Opt(n, "else")
    [] n.type = "WhileClause" -> n.cond \o n.body
    [] n.type \in {"ForClause", "SelectClause"} -> Opt(n, "items") \o n.body
    [] n.type = "CaseClause" -> <<n.word>> \o n.items
    [] n.type = "CaseItem" -> n.patterns \o n.body
    [] n.type = "TestClause" -> n.expr
    [] n.type = "DeclClause" ->
         Opt(n, "args") \o Opt(n, "assigns") \o Opt(n, "redirects")
    [] n.type = "LetClause" -> n.exprs \o Opt(n, "redirects")
    [] n.type \in {"Word", "DblQuoted"} -> n.parts
    [] n.type \in {"CmdSubst", "ProcSubst"} -> n.stmts
    [] n.type = "ParamExp" -> Opt1(n, "value")
    [] n.type = "Assignment" -> Opt1(n, "value") \o Opt1(n, "array")
    [] n.type = "ArrayExpr" -> n.elems
    [] n.type = "ArrayElem" -> Opt1(n, "index") \o Opt1(n, "value")
    [] n.type = "Redirect" -> <<n.target>> \o Opt1(n, "heredoc")
    [] OTHER -> <<>>

(* every node of the tree under n, n first, in source order *)
RECURSIVE AllNodes(_)
RECURSIVE AllNodesOf(_)
AllNodes(n) == <<n>> \o AllNodesOf(Kids(n))
AllNodesOf(ns) ==
  IF ns = <<>> THEN <<>> ELSE AllNodes(Head(ns)) \o AllNodesOf(Tail(ns))

NodesOfType(n, type) == SelectSeq(AllNodes(n), LAMBDA x : x.type = type)

Returned == pc = "done"
Ended == pc \in {"done", "failed"}

(***************************************************************************)
(* Heredocs: sources made of whole lines.                                  *)
(***************************************************************************)
MaxLines == 4

HeredocLines ==
  { <<"c", " ", "<", "<", "E", NL>>, <<"c", " ", "<", "<", "-", "E", NL>>, <<"c", " ", "<", "<", "E", " ", "<", "<", "F", NL>>, <<"x", NL>>, <<"E", NL>>, <<"F", NL>>,
    <<"d", NL>>, <<NL>> }

HeredocInit == Start(AllBranches \cup Pieces(HeredocLines, MaxLines))
SpecHeredoc == HeredocInit /\ [][Next]_vars

IsHeredocOp(op) == op \in {"<<", "<<-"}

(* every word token is a redirect target or the first token of its line:  *)
(* no command of the source has an argument, and no ";" is written         *)
FirstOnLineOnly ==
  /\ \A k \in 1..Len(source) : source[k] # ";"
  /\ \A k \in 2..Len(ts.tokens) :
       ts.tokens[k].type = "word" =>
         \/ ts.tokens[k - 1].type \in {"redir", "heredoc-body"}
         \/ ts.tokens[k - 1].type = "op" /\ ts.tokens[k - 1].value = ";"

CarriesHeredoc(sc) ==
  \E k \in 1..Len(Opt(sc, "redirects")) : "heredoc" \in DOMAIN sc.redirects[k]

(* C1: the command on the line after a heredoc's delimiter line is its own *)
(* Statement: where no command has arguments, a SimpleCommand that carries *)
(* a heredoc body holds no word but its own command name                   *)
C1_NextLineIsOwnStatement ==
  (Returned /\ FirstOnLineOnly) =>
    LET scs == NodesOfType(ast, "SimpleCommand")
    IN \A k \in 1..Len(scs) :
         CarriesHeredoc(scs[k]) => Len(Opt(scs[k], "words")) <= 1

(* the contents of the heredoc-body tokens, in token order *)
TokenBodies(tokens) ==
  LET bs == SelectSeq(tokens, LAMBDA t : t.type = "heredoc-body")
  IN [k \in 1..Len(bs) |-> bs[k].content]

(* the << and <<- Redirects of the AST, in source order *)
HeredocRedirects(n) ==
  SelectSeq(NodesOfType(n, "Redirect"), LAMBDA r : IsHeredocOp(r.op))

SeveralOnOneLine(tokens) ==
  \E k \in 1..Len(tokens) - 1 :
    tokens[k].type = "heredoc-body" /\ tokens[k + 1].type = "heredoc-body"

(* C2: when one line opens several heredocs, parse succeeds and the k-th   *)
(* heredoc Redirect carries the k-th heredoc-body of the tokenizer         *)
C2_BodiesAttachInOrder ==
  (Ended /\ pc # "tokenize" /\ ts.err = "" /\ SeveralOnOneLine(ts.tokens)) =>
    /\ Returned
    /\ LET rs == HeredocRedirects(ast)
           bs == TokenBodies(ts.tokens)
       IN /\ Len(rs) = Len(bs)
          /\ \A k \in 1..Len(rs) :
               /\ "heredoc" \in DOMAIN rs[k]
               /\ rs[k].heredoc = LitWord(bs[k])

(***************************************************************************)
(* Case clauses: "case x in" followed by pattern and body tokens.          *)
(***************************************************************************)
MaxCaseTokens == 4

(* the sources made of head and then one of the tails *)
After(head, tails) == { head \o t : t \in tails }

CaseTokens ==
  { <<" ", "a">>, <<" ", ")">>, <<" ", "|">>, <<" ", ";", ";">>, <<" ", "e", "s", "a", "c">>, <<NL>> }

CaseInit ==
  Start(AllBranches
        \cup After(<<"c", "a", "s", "e", " ", "x", " ", "i", "n">>, Pieces(CaseTokens, MaxCaseTokens)))
SpecCase == CaseInit /\ [][Next]_vars

(* C3: in every AST that parse returns, every CaseItem of every CaseClause *)
(* has a patterns list with at least one Word                              *)
C3_PatternsNonEmpty ==
  Returned =>
    LET items == NodesOfType(ast, "CaseItem")
    IN \A k \in 1..Len(items) :
         /\ Len(items[k].patterns) >= 1
         /\ \A j \in 1..Len(items[k].patterns) :
              items[k].patterns[j].type = "Word"

(***************************************************************************)
(* Optional array fields: if clauses, loops with and without items,        *)
(* declarations and let.                                                   *)
(***************************************************************************)
MaxClauseParts == 4
MaxItemParts == 3

IfParts ==
  { <<"i", "f", " ", "a", ";">>, <<" ", "t", "h", "e", "n", " ", "b", ";">>, <<" ", "e", "l", "i", "f", " ", "c", ";">>, <<" ", "e", "l", "s", "e">>, <<" ", "d", ";">>, <<" ", "f", "i">> }

ItemParts ==
  { <<"f", "o", "r", " ", "x">>, <<"s", "e", "l", "e", "c", "t", " ", "x">>, <<" ", "i", "n">>, <<" ", "a">>, <<";", " ", "d", "o", " ", "b", ";", " ", "d", "o", "n", "e">>,
    <<"d", "e", "c", "l", "a", "r", "e">>, <<"l", "e", "t">>, <<" ", ">", "f">>, <<" ", "y", "=", "1">> }

OptionalInit ==
  Start(AllBranches \cup Pieces(IfParts, MaxClauseParts)
        \cup Pieces(ItemParts, MaxItemParts))
SpecOptional == OptionalInit /\ [][Next]_vars

(* the optional array fields of a node of the given type, src/ast.ts *)
OptionalArrays(type) ==
  CASE type = "SimpleCommand" -> {"words", "assignments", "redirects"}
    [] type = "IfClause" -> {"else"}
    [] type \in {"ForClause", "SelectClause"} -> {"items"}
    [] type = "DeclClause" -> {"args", "assigns", "redirects"}
    [] type = "LetClause" -> {"redirects"}
    [] type = "Program" -> {"comments"}
    [] OTHER -> {}

(* C4: in every AST that parse returns, no optional array field is present *)
(* with an empty list: an absent list is an omitted field                  *)
C4_NoEmptyOptionalArray ==
  Returned =>
    LET nodes == AllNodes(ast)
    IN \A k \in 1..Len(nodes) :
         \A f \in OptionalArrays(nodes[k].type) \cap DOMAIN nodes[k] :
           Len(nodes[k][f]) > 0

(***************************************************************************)
(* Assignments: a leading word over a small alphabet, alone or before a    *)
(* command name.                                                           *)
(***************************************************************************)
MaxWordLen == 5

AssignChars == { <<"a">>, <<"=">>, <<"+">>, <<"1">> }

AssignWords == Pieces(AssignChars, MaxWordLen)

AssignInit ==
  Start(AllBranches \cup AssignWords
        \cup { w \o <<" ", "c">> : w \in AssignWords })
SpecAssign == AssignInit /\ [][Next]_vars

(* the readings of raw as NAME=value or NAME+=value with NAME an           *)
(* identifier: at most one, since no identifier holds "=" or "+"           *)
AssignShapes(raw) ==
  { [name |-> Slice(raw, 0, n), append |-> At(raw, n) = "+"] :
      n \in { m \in 1..Len(raw) - 1 :
                /\ IsIdentifier(Slice(raw, 0, m))
                /\ \/ At(raw, m) = "="
                   \/ At(raw, m) = "+" /\ At(raw, m + 1) = "=" } }

(* the command is a SimpleCommand whose first assignment is named as in    *)
(* the shape a, with append set exactly for the += form                    *)
StartsWithAssignment(command, a) ==
  /\ command.type = "SimpleCommand"
  /\ "assignments" \in DOMAIN command
  /\ command.assignments[1].type = "Assignment"
  /\ command.assignments[1].name = a.name
  /\ ("append" \in DOMAIN command.assignments[1]) = a.append

(* C5: a leading word token that is a single literal shaped NAME=value or  *)
(* NAME+=value is parsed as an Assignment named NAME, append set exactly   *)
(* for +=, and not as a word                                               *)
C5_LeadingAssignment ==
  (/\ Returned
   /\ Len(ts.tokens) > 0
   /\ ts.tokens[1].type = "word"
   /\ Len(ts.tokens[1].parts) = 1
   /\ ts.tokens[1].parts[1].type = "lit") =>
    \A a \in AssignShapes(ts.tokens[1].parts[1].value) :
      /\ Len(body) > 0
      /\ StartsWithAssignment(body[1].command, a)

(***************************************************************************)
(* Redirects: command words, redirect operators and separators.            *)
(***************************************************************************)
MaxRedirTokens == 4

RedirTokens ==
  { <<"f", "o", "o">>, <<" ", "a">>, <<" ", ">">>, <<" ", "2", ">">>, <<" ", "<", "<">>, <<";">> }

RedirInit == Start(AllBranches \cup Pieces(RedirTokens, MaxRedirTokens))
SpecRedir == RedirInit /\ [][Next]_vars

RedirectWithoutTarget == "Redirect must be followed by a word"

(* the token at k is a redirect operator that no word token follows *)
LacksTarget(tokens, k) ==
  /\ tokens[k].type = "redir"
  /\ k = Len(tokens) \/ tokens[k + 1].type # "word"

(* C6: whenever a redirect operator token is not followed by a word token, *)
(* also as the last token of the input, parse fails with "Redirect must be *)
(* followed by a word"                                                     *)
C6_RedirectWithoutTarget ==
  (/\ Ended
   /\ ts.err = ""
   /\ \E k \in 1..Len(ts.tokens) : LacksTarget(ts.tokens, k)) =>
    /\ pc = "failed"
    /\ error = RedirectWithoutTarget

(***************************************************************************)
(* Compound commands cut short: the input ends before the end keyword.     *)
(***************************************************************************)
MaxListTokens == 3

(* heads after which a statement list is read up to an end keyword *)
ListHeads ==
  { <<"i", "f">>, <<"i", "f", " ", "a", ";", " ", "t", "h", "e", "n">>, <<"i", "f", " ", "a", ";", " ", "t", "h", "e", "n", " ", "b", ";", " ", "e", "l", "s", "e">>,
    <<"i", "f", " ", "a", ";", " ", "t", "h", "e", "n", " ", "b", ";", " ", "e", "l", "i", "f", " ", "c">>, <<"i", "f", " ", "a", ";", " ", "t", "h", "e", "n", " ", "b", ";", " ", "e", "l", "i", "f", " ", "c", ";", " ", "t", "h", "e", "n">>,
    <<"w", "h", "i", "l", "e">>, <<"w", "h", "i", "l", "e", " ", "a", ";", " ", "d", "o">>, <<"u", "n", "t", "i", "l">>, <<"u", "n", "t", "i", "l", " ", "a", ";", " ", "d", "o">>,
    <<"f", "o", "r", " ", "x", ";", " ", "d", "o">>, <<"f", "o", "r", " ", "x", " ", "i", "n", " ", "a", ";", " ", "d", "o">>, <<"f", "o", "r", " ", "(", "(", ";", ";", ")", ")", ";", " ", "d", "o">>,
    <<"s", "e", "l", "e", "c", "t", " ", "x", ";", " ", "d", "o">>, <<"s", "e", "l", "e", "c", "t", " ", "x", " ", "i", "n", " ", "a", ";", " ", "d", "o">>,
    <<"c", "a", "s", "e", " ", "x", " ", "i", "n", " ", "a", ")">>, <<"c", "a", "s", "e", " ", "x", " ", "i", "n", " ", "a", ")", " ", "b", ";", ";", " ", "c", ")">> }

ListTokens == { <<" ", "b">>, <<";">>, <<NL>> }

(* heads that end where "in", "do", a pattern or "]]" is still to come *)
BareHeads ==
  { <<"f", "o", "r", " ", "x">>, <<"f", "o", "r", " ", "x", ";">>, <<"f", "o", "r", " ", "x", " ", "i", "n">>, <<"f", "o", "r", " ", "x", " ", "i", "n", " ", "a">>, <<"f", "o", "r", " ", "x", " ", "i", "n", " ", "a", ";">>,
    <<"f", "o", "r", " ", "(", "(", ";", ";", ")", ")">>, <<"s", "e", "l", "e", "c", "t", " ", "x">>, <<"s", "e", "l", "e", "c", "t", " ", "x", " ", "i", "n", " ", "a">>,
    <<"c", "a", "s", "e", " ", "x">>, <<"c", "a", "s", "e", " ", "x", " ", "i", "n">>, <<"c", "a", "s", "e", " ", "x", " ", "i", "n", " ", "a", ")", " ", "b", ";", ";">>, <<"[", "[">>, <<"[", "[", " ", "a">>,
    <<"[", "[", " ", "a", " ", "=", " ", "b">> }

Truncated ==
  BareHeads
  \cup UNION { After(h, Pieces(ListTokens, MaxListTokens)) : h \in ListHeads }

TruncatedInit == Start(AllBranches \cup Truncated)
SpecTruncated == TruncatedInit /\ [][Next]_vars

(* the end-of-input failures that name the expected end keywords: the     *)
(* messages of parseStatementsUntilKeyword, parser.ts:527-529, and the     *)
(* same for the end keywords esac and ]], and the message of               *)
(* parseTestClause at the end of the input, parser.ts:466                  *)
UnclosedStructureErrors ==
  { "Unexpected end of input while looking for then",
    "Unexpected end of input while looking for else, elif, fi",
    "Unexpected end of input while looking for fi",
    "Unexpected end of input while looking for do",
    "Unexpected end of input while looking for done",
    "Unexpected end of input while looking for esac",
    "Unexpected end of input while looking for ]]",
    "Unclosed [[" }

(* C7: a compound command whose input ends before its end keyword fails    *)
(* with the unclosed-structure error, the end-of-input failure that names  *)
(* the expected end keywords, and with no other kind of error              *)
C7_UnclosedStructure ==
  (Ended /\ source \in Truncated) =>
    /\ pc = "failed"
    /\ error \in UnclosedStructureErrors

(***************************************************************************)
(* Several errors in one input: redirects without a target and unclosed    *)
(* quotes.                                                                 *)
(***************************************************************************)
MaxErrorTokens == 4

ErrorTokens ==
  { <<"f", "o", "o">>, <<" ", "a">>, <<" ", ">">>, <<";">>, <<" ", DQ, "b", "a", "r">>, <<" ", SQ, "x">> }

ErrorsInit == Start(AllBranches \cup Pieces(ErrorTokens, MaxErrorTokens))
SpecErrors == ErrorsInit /\ [][Next]_vars

(* a redirect operator with a token after it that is not a word: the       *)
(* parser-level error of the sources above, at a position before anything *)
(* that the tokenizer read after these two tokens                          *)
RedirectThenNoWord(tokens) ==
  \E k \in 1..Len(tokens) - 1 :
    tokens[k].type = "redir" /\ tokens[k + 1].type # "word"

(* C8: parse fails with the error that comes first in the source: a        *)
(* redirect without a target is reported in preference to a tokenizer      *)
(* error, such as an unclosed quote, at a later position                   *)
C8_FirstErrorInSourceOrder ==
  (pc = "failed" /\ RedirectThenNoWord(ts.tokens)) =>
    error = RedirectWithoutTarget

(***************************************************************************)
(* Comments: at the top level and inside command, backtick and process     *)
(* substitutions.                                                          *)
(***************************************************************************)
MaxCommentParts == 3

(* every "#" below follows a blank, and its comment ends at a newline *)
CommentParts ==
  { <<"a">>, <<NL>>, <<" ", "#", "c", NL>>, <<" ", "$", "(", "b", " ", "#", "d", NL, ")">>, <<" ", BT, "b", " ", "#", "e", NL, BT>>, <<" ", "<", "(", "b", " ", "#", "f", NL, ")">> }

CommentsInit == Start(AllBranches \cup Pieces(CommentParts, MaxCommentParts))
SpecComments == CommentsInit /\ [][Next]_vars

(* the texts between each "#" of s, from position i on, and the end of its *)
(* line, in the order of the source                                        *)
RECURSIVE SourceComments(_, _)
SourceComments(s, i) ==
  LET j == IndexOf(s, "#", i)
      e == IF IndexOf(s, NL, j) = -1 THEN Len(s) ELSE IndexOf(s, NL, j)
  IN IF j = -1 THEN <<>>
     ELSE <<Slice(s, j + 1, e)>> \o SourceComments(s, e)

ProgramComments(program) ==
  [k \in 1..Len(Opt(program, "comments")) |-> program.comments[k].text]

(* C9: with keepComments, program.comments of a returned AST lists the     *)
(* text of every comment of the source in source order, the comments       *)
(* inside command, backtick and process substitutions included             *)
C9_EveryCommentKept ==
  (Returned /\ keepComments) =>
    ProgramComments(ast) = SourceComments(source, 0)

(***************************************************************************)
(* Termination: sources that enter every scanning loop of the tokenizer    *)
(* and every loop of the parser, closed or left open.                      *)
(***************************************************************************)
MaxTermParts == 3

ScanParts ==
  { <<"a">>, <<" ">>, <<NL>>, <<DQ>>, <<SQ>>, <<BT>>, <<"$", "(">>, <<"$", "{">>, <<"(", "(">>,
    <<"<", "(">>, <<")">>, <<"<", "<", "a">> }

LoopParts ==
  { <<"i", "f", " ", "a", ";">>, <<" ", "t", "h", "e", "n">>, <<"c", "a", "s", "e", " ", "a", " ", "i", "n">>, <<" ", "b", ")">>, <<" ", "(">>, <<" ", "a", ";">>, <<"a", "=", "(">>,
    <<" ", "[", "[">>, <<"f", "o", "r", " ", "x", " ", "i", "n">>, <<" ", "d", "o">>, <<" ", "|">>, <<"l", "e", "t">> }

TermInit ==
  Start(AllBranches \cup Pieces(ScanParts, MaxTermParts)
        \cup Pieces(LoopParts, MaxTermParts))

SpecTerm == TermInit /\ [][Next]_vars

(* the phases of parse in their order; a loop that does not advance is     *)
(* after none of them                                                      *)
Rank(phase) ==
  CASE phase = "tokenize" -> 3
    [] phase = "parse" -> 2
    [] phase = "assert" -> 1
    [] phase \in {"done", "failed"} -> 0
    [] OTHER -> 4

(* parse has a next step to take *)
CanStep ==
  \/ pc = "tokenize" /\ (TokRunning(source, ts) \/ ts.i >= Len(source))
  \/ pc \in {"parse", "assert"}

(* a step goes on to a later phase, or it is an iteration of the main loop *)
(* of tokenize or of the loop of parseProgram that starts before the end   *)
(* of its input and moves the position forward; after it parse has ended   *)
(* or has a next step                                                      *)
Advances ==
  /\ Ended' \/ CanStep'
  /\ \/ Rank(pc') < Rank(pc)
     \/ /\ pc = "tokenize" /\ pc' = "tokenize"
        /\ ts.i < Len(source) /\ ts'.i > ts.i
     \/ /\ pc = "parse" /\ pc' = "parse"
        /\ ps.idx < Len(ts.tokens) /\ ps'.idx > ps.idx

(* C10: parse terminates: every iteration of a scanning loop of the        *)
(* tokenizer moves the source position forward, every loop of the parser   *)
(* consumes a token or raises, and parse ends by returning an AST or by    *)
(* failing: no step leaves a loop where it was, every step moves forward   *)
(* in a bounded input or goes on to a later phase, and only a parse that   *)
(* has returned or failed has no next step                                 *)
C10_Terminates == [][Advances]_vars

(* parse returned after the main loop of the tokenizer pushed five tokens  *)
(* or more, a quoted or substituted word among them, and the loop of       *)
(* parseProgram read two statements or more                                *)
C10_ReturnedAfterLoops ==
  /\ Returned
  /\ Len(ts.tokens) >= 5
  /\ Len(body) >= 2
  /\ \E k \in 1..Len(ts.tokens) :
       /\ ts.tokens[k].type = "word"
       /\ ts.tokens[k].parts[1].type # "lit"

(***************************************************************************)
(* Chains: commands joined by "|", "&&" and "||", with "!" and "&", also   *)
(* with an operand missing.                                                *)
(***************************************************************************)
MaxChainParts == 4

ChainParts ==
  { <<"a">>, <<" ", "|", " ", "b">>, <<" ", "&", "&", " ", "c">>, <<" ", "|", "|", " ", "d">>, <<"!", " ">>, <<" ", "&">>, <<";", " ">>, <<" ", "|">> }

ChainInit == Start(AllBranches \cup Pieces(ChainParts, MaxChainParts))
SpecChain == ChainInit /\ [][Next]_vars

IsOpIn(t, values) == t.type = "op" /\ t.value \in values

(* an operator with no command where its operand must start: nothing or an *)
(* operator comes after "|", "&&", "||" or "!", or nothing or an operator  *)
(* comes before "|", "&&", "||" or "&"                                     *)
EmptyCommandPosition(tokens) ==
  \E k \in 1..Len(tokens) :
    \/ /\ IsOpIn(tokens[k], {"|", "&&", "||", "!"})
       /\ k = Len(tokens) \/ tokens[k + 1].type = "op"
    \/ /\ IsOpIn(tokens[k], {"|", "&&", "||", "&"})
       /\ k = 1 \/ tokens[k - 1].type = "op"

HasContent(sc) ==
  \E f \in {"words", "assignments", "redirects"} :
    f \in DOMAIN sc /\ Len(sc[f]) > 0

(* C11: parse never returns an empty command: every SimpleCommand of a     *)
(* returned AST has a word, an assignment or a redirect, and a command     *)
(* position that holds none of them makes parse fail                       *)
C11_NoEmptyCommand ==
  /\ Returned =>
       LET scs == NodesOfType(ast, "SimpleCommand")
       IN \A k \in 1..Len(scs) : HasContent(scs[k])
  /\ (Ended /\ ts.err = "" /\ EmptyCommandPosition(ts.tokens)) =>
       pc = "failed" /\ error # ""

(* parse failed at a command position that holds no word *)
C11_FailedAtEmptyPosition ==
  /\ pc = "failed"
  /\ error = "Expected a command word"
  /\ Len(ts.tokens) >= 3
  /\ EmptyCommandPosition(ts.tokens)

(***************************************************************************)
(* Heredoc redirects of simple commands and of declare/let clauses.        *)
(***************************************************************************)
MaxAttachParts == 3

AttachParts ==
  { <<"c", " ", "<", "<", "E", NL>>, <<"c", " ", "<", "<", "-", "E", NL>>, <<"d", "e", "c", "l", "a", "r", "e", " ", "<", "<", "E", NL>>, <<"l", "e", "t", " ", "a", " ", "<", "<", "E", NL>>,
    <<"c", " ", "<", "<", "E", " ", ">", "f", NL>>, <<"c", " ", "<", "<", "E">>, <<"x", NL>>, <<TAB, "E", NL>>, <<"E", NL>> }

AttachInit == Start(AllBranches \cup Pieces(AttachParts, MaxAttachParts))
SpecAttach == AttachInit /\ [][Next]_vars

(* the << and <<- redirect tokens, in token order *)
HeredocTokens(tokens) ==
  SelectSeq(tokens, LAMBDA t : t.type = "redir" /\ IsHeredocOp(t.op))

(* how many of the first k heredoc redirect tokens had a body collected *)
CollectedUpTo(hs, k) ==
  Cardinality({ j \in 1..k : "_collected" \in DOMAIN hs[j] })

(* C12: in every AST parse returns, each << or <<- Redirect for which the  *)
(* tokenizer collected a body carries a heredoc Word holding that body, in *)
(* SimpleCommand, DeclClause and LetClause alike                           *)
C12_CollectedBodyAttached ==
  Returned =>
    LET hs == HeredocTokens(ts.tokens)
        bs == TokenBodies(ts.tokens)
        rs == HeredocRedirects(ast)
    IN /\ Len(rs) = Len(hs)
       /\ \A k \in 1..Len(rs) :
            "_collected" \in DOMAIN hs[k] =>
              /\ "heredoc" \in DOMAIN rs[k]
              /\ rs[k].heredoc = LitWord(bs[CollectedUpTo(hs, k)])

C12_BodyAttached ==
  /\ Returned
  /\ Len(TokenBodies(ts.tokens)) = 1
  /\ \E k \in 1..Len(HeredocRedirects(ast)) :
       /\ "heredoc" \in DOMAIN HeredocRedirects(ast)[k]
       /\ HeredocRedirects(ast)[k].heredoc = LitWord(<<"x", NL>>)

(***************************************************************************)
(* Assignments and words of one simple command.                            *)
(***************************************************************************)
MaxCommandParts == 4

CommandParts ==
  { <<"a", "=", "1", " ">>, <<"_", "b", "+", "=", "2", " ">>, <<"c", "=", " ">>, <<"x", " ">>, <<"1", "d", "=", "3", " ">>, <<">", "f", " ">>, <<"=", "e", " ">> }

CommandInit == Start(AllBranches \cup Pieces(CommandParts, MaxCommandParts))
SpecCommand == CommandInit /\ [][Next]_vars

(* the source is one simple command: word tokens of one literal part and   *)
(* redirect operators only                                                 *)
OneSimpleCommand(tokens) ==
  /\ Len(tokens) > 0
  /\ \A k \in 1..Len(tokens) :
       \/ tokens[k].type = "redir"
       \/ /\ tokens[k].type = "word"
          /\ Len(tokens[k].parts) = 1
          /\ tokens[k].parts[1].type = "lit"

(* the texts of the word tokens that are not the target of a redirect *)
RECURSIVE CommandWords(_, _)
CommandWords(tokens, k) ==
  IF k > Len(tokens) THEN <<>>
  ELSE (IF tokens[k].type = "word" /\ (k = 1 \/ tokens[k - 1].type # "redir")
        THEN << tokens[k].parts[1].value >> ELSE <<>>)
       \o CommandWords(tokens, k + 1)

(* the text an Assignment without array stands for *)
AssignmentText(a) ==
  a.name \o (IF "append" \in DOMAIN a THEN <<"+", "=">> ELSE <<"=">>)
         \o (IF "value" \in DOMAIN a THEN a.value.parts[1].value ELSE <<>>)

(* C13: in a SimpleCommand the Assignments are the leading word tokens and *)
(* the words are all the word tokens after them, NAME=value tokens that    *)
(* follow an ordinary word included; every Assignment name is an           *)
(* identifier [A-Za-z_][A-Za-z0-9_]*                                       *)
C13_AssignmentsPrecedeWords ==
  /\ Returned =>
       \A k \in 1..Len(NodesOfType(ast, "Assignment")) :
         IsIdentifier(NodesOfType(ast, "Assignment")[k].name)
  /\ (Returned /\ OneSimpleCommand(ts.tokens)) =>
       /\ Len(ast.body) = 1
       /\ ast.body[1].command.type = "SimpleCommand"
       /\ LET sc == ast.body[1].command
              texts == CommandWords(ts.tokens, 1)
              asg == Opt(sc, "assignments")
              wds == Opt(sc, "words")
          IN /\ Len(texts) = Len(asg) + Len(wds)
             /\ \A k \in 1..Len(asg) : AssignmentText(asg[k]) = texts[k]
             /\ \A k \in 1..Len(wds) : wds[k] = LitWord(texts[Len(asg) + k])

C13_LaterAssignmentIsWord ==
  /\ Returned
  /\ OneSimpleCommand(ts.tokens)
  /\ Len(ast.body) = 1
  /\ Len(Opt(ast.body[1].command, "assignments")) = 1
  /\ Len(Opt(ast.body[1].command, "words")) = 2
  /\ ast.body[1].command.words[2] = LitWord(<<"a", "=", "1">>)

(* C14: every Pipeline of a returned AST has at least two commands, and a  *)
(* source without "|" yields no Pipeline at all                            *)
C14_PipelineHasTwoCommands ==
  Returned =>
    LET pls == NodesOfType(ast, "Pipeline")
    IN /\ \A k \in 1..Len(pls) : Len(pls[k].commands) >= 2
       /\ (\A i \in 1..Len(source) : source[i] # "|") => pls = <<>>

C14_PipelineAndSingleCommand ==
  /\ Returned
  /\ Len(ast.body) = 2
  /\ ast.body[1].command.type = "Pipeline"
  /\ Len(ast.body[1].command.commands) = 2
  /\ ast.body[2].command.type = "SimpleCommand"

(* the tokens are one chain: words of one literal part joined by "|",      *)
(* "&&" and "||"                                                           *)
IsChain(tokens) ==
  /\ Len(tokens) % 2 = 1
  /\ \A k \in 1..Len(tokens) :
       IF k % 2 = 1
       THEN /\ tokens[k].type = "word"
            /\ Len(tokens[k].parts) = 1
            /\ tokens[k].parts[1].type = "lit"
       ELSE IsOpIn(tokens[k], {"|", "&&", "||"})

WordCommand(t) ==
  [type |-> "SimpleCommand", words |-> << LitWord(t.parts[1].value) >>]

(* a maximal run of commands joined by "|" as one operand *)
RunOperand(run) ==
  IF Len(run) = 1 THEN run[1]
  ELSE [type |-> "Pipeline", commands |-> [k \in 1..Len(run) |-> Stmt(run[k])]]

(* the operands of a chain in source order: its maximal "|" runs *)
RECURSIVE ChainOperands(_, _, _)
ChainOperands(tokens, k, run) ==
  IF k > Len(tokens) THEN << RunOperand(run) >>
  ELSE IF tokens[k].type = "word"
  THEN ChainOperands(tokens, k + 1, Append(run, WordCommand(tokens[k])))
  ELSE IF tokens[k].value = "|" THEN ChainOperands(tokens, k + 1, run)
  ELSE << RunOperand(run) >> \o ChainOperands(tokens, k + 1, <<>>)

(* the operand commands of a tree of Logical nodes, left to right *)
RECURSIVE LogicalOperands(_)
LogicalOperands(c) ==
  IF c.type = "Logical"
  THEN LogicalOperands(c.left.command) \o LogicalOperands(c.right.command)
  ELSE << c >>

(* C15: "|" binds tighter than "&&" and "||": the operands of the Logical  *)
(* tree of a chain are its maximal "|" runs, each run of several commands  *)
(* one Pipeline, and no Pipeline of the chain holds a Logical              *)
C15_PipeBindsTighter ==
  (Returned /\ IsChain(ts.tokens)) =>
    /\ Len(ast.body) = 1
    /\ LogicalOperands(ast.body[1].command) = ChainOperands(ts.tokens, 1, <<>>)
    /\ \A k \in 1..Len(NodesOfType(ast, "Pipeline")) :
         NodesOfType(NodesOfType(ast, "Pipeline")[k], "Logical") = <<>>

C15_PipelinesAroundLogical ==
  /\ Returned
  /\ IsChain(ts.tokens)
  /\ ast.body[1].command.type = "Logical"
  /\ ast.body[1].command.left.command.type = "Pipeline"
  /\ ast.body[1].command.right.command.type = "Pipeline"

(* the "&&" and "||" of a chain, in source order *)
LogicalOps(tokens) ==
  SelectSeq(tokens, LAMBDA t : IsOpIn(t, {"&&", "||"}))

(* the first n operands joined from the left *)
RECURSIVE LeftNested(_, _, _)
LeftNested(operands, ops, n) ==
  IF n = 1 THEN operands[1]
  ELSE [type |-> "Logical",
        op |-> IF ops[n - 1].value = "&&" THEN "and" ELSE "or",
        left |-> Stmt(LeftNested(operands, ops, n - 1)),
        right |-> Stmt(operands[n])]

(* C16: "&&" and "||" have one precedence and associate to the left: the   *)
(* chain p1 op1 p2 ... opn pn+1 is the Logical of opn whose right is pn+1  *)
(* and whose left is the Logical of the chain before opn                   *)
C16_LogicalLeftAssociative ==
  (Returned /\ IsChain(ts.tokens)) =>
    ast.body[1].command =
      LeftNested(ChainOperands(ts.tokens, 1, <<>>), LogicalOps(ts.tokens),
                 Len(LogicalOps(ts.tokens)) + 1)

C16_ThreeOperators ==
  /\ Returned
  /\ IsChain(ts.tokens)
  /\ ast.body[1].command.type = "Logical"
  /\ ast.body[1].command.op = "and"
  /\ ast.body[1].command.left.command.type = "Logical"
  /\ ast.body[1].command.left.command.op = "or"
  /\ ast.body[1].command.left.command.left.command.type = "Logical"
  /\ ast.body[1].command.left.command.left.command.op = "and"

(***************************************************************************)
(* if clauses with elif branches.                                          *)
(***************************************************************************)
MaxElifParts == 4

IfHead == <<"i", "f", " ", "a", ";", " ", "t", "h", "e", "n", " ", "b", ";">>
ElifPart == <<" ", "e", "l", "i", "f", " ", "c", ";", " ", "t", "h", "e", "n", " ", "b", ";">>
ElsePart == <<" ", "e", "l", "s", "e", " ", "d", ";">>
FiPart == <<" ", "f", "i">>

ElifParts == { ElifPart, ElsePart, FiPart, <<" ", "e", "l", "i", "f", " ", "c", ";">>, <<" ", "e", "l", "s", "e">> }

ElifInit ==
  Start(AllBranches \cup After(IfHead, Pieces(ElifParts, MaxElifParts)))
SpecElif == ElifInit /\ [][Next]_vars

RECURSIVE Repeat(_, _)
Repeat(text, n) == IF n = 0 THEN <<>> ELSE text \o Repeat(text, n - 1)

(* an if with n elif branches, a final else when hasElse, and one fi *)
ElifSource(n, hasElse) ==
  IfHead \o Repeat(ElifPart, n) \o (IF hasElse THEN ElsePart ELSE <<>>)
         \o FiPart

NamedCommand(name) ==
  Stmt([type |-> "SimpleCommand", words |-> << LitWord(<<name>>) >>])

(* the IfClause of condition cond followed by n elif branches *)
RECURSIVE NestedIf(_, _, _)
NestedIf(cond, n, hasElse) ==
  [type |-> "IfClause", cond |-> << NamedCommand(cond) >>,
   then |-> << NamedCommand("b") >>]
  @@ (IF n > 0 THEN [else |-> << Stmt(NestedIf("c", n - 1, hasElse)) >>]
      ELSE IF hasElse THEN [else |-> << NamedCommand("d") >>]
      ELSE EmptyRec)

(* C17: an if with n elif branches and a single fi is parsed, as n+1       *)
(* nested IfClauses: each elif is the else branch of the IfClause before   *)
(* it, one Statement whose command is an IfClause, and the final else body *)
(* is the else branch of the innermost IfClause                            *)
C17_ElifNests ==
  \A n \in 0..MaxElifParts : \A hasElse \in BOOLEAN :
    (Ended /\ source = ElifSource(n, hasElse)) =>
      /\ Returned
      /\ ast.body = << Stmt(NestedIf("a", n, hasElse)) >>
      /\ Len(NodesOfType(ast, "IfClause")) = n + 1

C17_TwoElifsAndElse ==
  /\ Returned
  /\ source = ElifSource(2, TRUE)
  /\ Len(NodesOfType(ast, "IfClause")) = 3

LeadingBang(tokens) == Len(tokens) > 0 /\ IsOpIn(tokens[1], {"!"})
TrailingAmp(tokens) == Len(tokens) > 0 /\ IsOpIn(tokens[Len(tokens)], {"&"})

(* the tokens between a leading "!" and a trailing "&" *)
ChainOf(tokens) ==
  SubSeq(tokens, IF LeadingBang(tokens) THEN 2 ELSE 1,
                 IF TrailingAmp(tokens) THEN Len(tokens) - 1 ELSE Len(tokens))

PlainStatement(st) == DOMAIN st = {"type", "command"}

(* C18: a leading "!" and a trailing "&" around a chain give one Statement *)
(* whose command is the whole chain, negated exactly when the "!" is       *)
(* written and background exactly when the "&" is; no Statement inside the *)
(* chain carries either flag                                               *)
C18_FlagsOnWholeStatement ==
  (Returned /\ IsChain(ChainOf(ts.tokens))) =>
    /\ Len(ast.body) = 1
    /\ ("negated" \in DOMAIN ast.body[1]) = LeadingBang(ts.tokens)
    /\ ("background" \in DOMAIN ast.body[1]) = TrailingAmp(ts.tokens)
    /\ LeadingBang(ts.tokens) => ast.body[1].negated = TRUE
    /\ TrailingAmp(ts.tokens) => ast.body[1].background = TRUE
    /\ ast.body[1].command =
         LeftNested(ChainOperands(ChainOf(ts.tokens), 1, <<>>),
                    LogicalOps(ts.tokens), Len(LogicalOps(ts.tokens)) + 1)
    /\ \A k \in 1..Len(NodesOfType(ast.body[1].command, "Statement")) :
         PlainStatement(NodesOfType(ast.body[1].command, "Statement")[k])

C18_NegatedBackgroundChain ==
  /\ Returned
  /\ IsChain(ChainOf(ts.tokens))
  /\ LeadingBang(ts.tokens)
  /\ TrailingAmp(ts.tokens)
  /\ ast.body[1].command.type = "Logical"
  /\ ast.body[1].negated
  /\ ast.body[1].background

(***************************************************************************)
(* Redirect operators: sources over the operator characters and digits.    *)
(***************************************************************************)
MaxOpChars == 4

OpChars == { <<"<">>, <<">">>, <<"&">>, <<"-">>, <<"|">>, <<"1">>, <<"a">>, <<" ">> }

OpsInit == Start(AllBranches \cup Pieces(OpChars, MaxOpChars))
SpecOps == OpsInit /\ [][Next]_vars

(* the fixed set of redirect operators, src/ast.ts RedirOp *)
RedirOps ==
  { [op |-> "<<<", chars |-> <<"<", "<", "<">>], [op |-> "&>>", chars |-> <<"&", ">", ">">>],
    [op |-> "<<-", chars |-> <<"<", "<", "-">>], [op |-> ">>", chars |-> <<">", ">">>],
    [op |-> ">&", chars |-> <<">", "&">>], [op |-> ">|", chars |-> <<">", "|">>],
    [op |-> "<>", chars |-> <<"<", ">">>], [op |-> "<&", chars |-> <<"<", "&">>],
    [op |-> "&>", chars |-> <<"&", ">">>], [op |-> "<<", chars |-> <<"<", "<">>],
    [op |-> ">", chars |-> <<">">>], [op |-> "<", chars |-> <<"<">>] }

(* the operators that are a prefix of the input from pos on *)
OpsAt(s, pos) == { r \in RedirOps : StartsWith(s, r.chars, pos) }

LongestAt(s, pos) ==
  IF OpsAt(s, pos) = {} THEN NoRedir
  ELSE LET r == CHOOSE x \in OpsAt(s, pos) :
                  \A y \in OpsAt(s, pos) : Len(y.chars) <= Len(x.chars)
       IN [op |-> r.op, len |-> Len(r.chars)]

(* the end of the digit run that starts at i *)
DigitRunEnd(s, i) ==
  CHOOSE j \in i..Len(s) :
    /\ \A k \in i..(j - 1) : isDigit(At(s, k))
    /\ j = Len(s) \/ ~isDigit(At(s, j))

(* the step appends one redirect token *)
PushesRedir ==
  /\ Len(ts'.tokens) = Len(ts.tokens) + 1
  /\ ts'.tokens[Len(ts'.tokens)].type = "redir"

LongestRedirOp ==
  /\ \A pos \in 0..Len(source) :
       tryRedirOp(source, pos) = LongestAt(source, pos)
  /\ PushesRedir =>
       LET t == ts'.tokens[Len(ts'.tokens)]
           start == ts.i + (IF "fd" \in DOMAIN t THEN Len(t.fd) ELSE 0)
       IN /\ LongestAt(source, start).len > 0
          /\ t.op = LongestAt(source, start).op
          /\ ts'.i = start + LongestAt(source, start).len
          /\ "fd" \in DOMAIN t =>
               /\ Len(t.fd) > 0
               /\ t.fd = Slice(source, ts.i, DigitRunEnd(source, ts.i))
  /\ ( /\ pc = "tokenize"
       /\ TokRunning(source, ts)
       /\ isDigit(At(source, ts.i))
       /\ LongestAt(source, DigitRunEnd(source, ts.i)).len > 0 ) =>
       ts'.tokens =
         Append(ts.tokens,
                [type |-> "redir",
                 op |-> LongestAt(source, DigitRunEnd(source, ts.i)).op,
                 fd |-> Slice(source, ts.i, DigitRunEnd(source, ts.i))])

(* C19: tryRedirOp returns at every position the longest operator of the   *)
(* fixed set that is a prefix of the rest of the input, and none when no   *)
(* operator is; every redirect token holds that longest operator, and a    *)
(* digit run the main loop stands on that such an operator follows         *)
(* becomes the fd of that redirect token                                   *)
C19_LongestRedirOp == [][LongestRedirOp]_vars

C19_FdBeforeLongOperator ==
  /\ Len(ts.tokens) = 1
  /\ ts.tokens[1] = [type |-> "redir", op |-> ">>", fd |-> <<"1", "1">>]

(***************************************************************************)
(* Separators after a heredoc delimiter that no body follows.              *)
(***************************************************************************)
MaxSepParts == 3

SepParts ==
  { <<"c", " ", "<", "<", "E">>, <<"c", " ", "<", "<", "-", "E">>, <<";", " ", "d">>, <<";">>, <<" ", "e">>, <<NL>>, <<"x", NL>>, <<"E", NL>> }

SepInit == Start(AllBranches \cup Pieces(SepParts, MaxSepParts))
SpecSep == SepInit /\ [][Next]_vars

(* a heredoc redirect whose delimiter a separator follows, with no         *)
(* heredoc-body token in the whole input                                   *)
HeredocThenSeparator(tokens) ==
  /\ \A k \in 1..Len(tokens) : tokens[k].type \in {"word", "redir", "op"}
  /\ \E k \in 1..Len(tokens) - 2 :
       /\ tokens[k].type = "redir" /\ IsHeredocOp(tokens[k].op)
       /\ tokens[k + 1].type = "word"
       /\ IsOpIn(tokens[k + 2], {";"})

(* the word and redirect tokens that come first or right after a ";" *)
CommandStarts(tokens) ==
  { k \in 1..Len(tokens) :
      /\ tokens[k].type \in {"word", "redir"}
      /\ k = 1 \/ IsOpIn(tokens[k - 1], {";"}) }

(* C20: when no heredoc-body follows the separators after a heredoc        *)
(* delimiter, the separators are not consumed by the redirect: the ";"     *)
(* ends the command, and each command after a ";" is a Statement of its    *)
(* own (c <<E; d yields two Statements)                                    *)
C20_SeparatorEndsCommand ==
  (Returned /\ HeredocThenSeparator(ts.tokens)) =>
    Len(ast.body) = Cardinality(CommandStarts(ts.tokens))

(***************************************************************************)
(* Comments at the places a comment token can stand.                       *)
(***************************************************************************)
MaxPlaceParts == 3

PlaceParts ==
  { <<"c", "a", "s", "e", " ", "x", " ", "i", "n", " ", "a", ")", " ", "b">>, <<" ", "#", " ", "c", NL>>, <<" ", ";", ";", " ", "e", "s", "a", "c">>, <<"a", " ", "|">>, <<"a", " ", "&", "&">>, <<" ", "b">>,
    <<"x", "=", "(", "1">>, <<" ", ")">>, <<NL>> }

PlacesInit == Start(AllBranches \cup Pieces(PlaceParts, MaxPlaceParts))
SpecPlaces == PlacesInit /\ [][Next]_vars

(* C21: keepComments changes only program.comments: parse with the option  *)
(* on succeeds exactly when parse with the option off succeeds, and the    *)
(* two programs have the same body                                         *)
C21_KeepCommentsOnlyAddsComments ==
  Ended =>
    LET other == parse(source, ~keepComments)
    IN /\ Returned = (other.err = "" /\ ~other.stuck)
       /\ Returned => ast.body = other.ast.body

(***************************************************************************)
(* Case item bodies of several statements.                                 *)
(***************************************************************************)
MaxBodyStatements == 3

CaseHead == <<"c", "a", "s", "e", " ", "x", " ", "i", "n", " ", "a", ")", " ", "b">>

(* the separators of two statements of one body *)
BodySeparators == { <<";">>, <<";", " ">>, <<NL>>, <<";", NL>>, <<NL, NL>> }

(* the end of the item: a ";;" terminator or esac itself *)
BodyEnds == { <<" ", ";", ";", " ", "e", "s", "a", "c">>, <<";", ";", NL, "e", "s", "a", "c">>, <<NL, "e", "s", "a", "c">>, <<NL, ";", ";", NL, "e", "s", "a", "c">> }

NextStatements == { sep \o <<"c">> : sep \in BodySeparators }

BodySources ==
  { CaseHead \o m \o e :
      m \in Pieces(NextStatements, MaxBodyStatements), e \in BodyEnds }

BodyInit == Start(AllBranches \cup BodySources)
SpecBody == BodyInit /\ [][Next]_vars

(* C22: the statements of a case item body separated by ";", a newline,    *)
(* ";" and a newline or blank lines are all in the body of that one        *)
(* CaseItem: the body ends only at the ";;" of the source or at esac       *)
C22_BodyEndsAtTerminator ==
  (Ended /\ source \in BodySources) =>
    /\ Returned
    /\ Len(ast.body) = 1
    /\ ast.body[1].command.type = "CaseClause"
    /\ Len(ast.body[1].command.items) = 1
    /\ ast.body[1].command.items[1].body =
         << NamedCommand("b") >>
         \o [k \in 1..Len(SelectSeq(ts.tokens,
                           LAMBDA t : t = [type |-> "word",
                                           parts |-> << [type |-> "lit",
                                                         value |-> <<"c">>] >>]))
             |-> NamedCommand("c")]

(***************************************************************************)
(* Substitutions in words, in array elements included.                     *)
(***************************************************************************)
MaxSubstParts == 4

SubstParts ==
  { <<"x", "=", "(">>, <<"[", "i", "]", "=">>, <<"$", "(", "b", ")">>, <<BT, "c", BT>>, <<"<", "(", "d", ")">>, <<DQ, "$", "(", "e", ")", DQ>>, <<" ">>,
    <<")">>, <<"a">> }

SubstInit == Start(AllBranches \cup Pieces(SubstParts, MaxSubstParts))
SpecSubst == SubstInit /\ [][Next]_vars

IsSubstPart(part) == part.type \in {"cmd-subst", "backtick", "proc-subst"}

(* the substitution parts of a list of word parts, those inside double     *)
(* quotes included                                                         *)
RECURSIVE SubstPartsOf(_)
SubstPartsOf(parts) ==
  IF parts = <<>> THEN <<>>
  ELSE (IF IsSubstPart(Head(parts)) THEN << Head(parts) >>
        ELSE IF Head(parts).type = "dbl" THEN SubstPartsOf(Head(parts).parts)
        ELSE <<>>)
       \o SubstPartsOf(Tail(parts))

(* the substitution parts of the word tokens, in token order *)
RECURSIVE TokenSubsts(_, _)
TokenSubsts(tokens, k) ==
  IF k > Len(tokens) THEN <<>>
  ELSE (IF tokens[k].type = "word" THEN SubstPartsOf(tokens[k].parts)
        ELSE <<>>)
       \o TokenSubsts(tokens, k + 1)

(* the CmdSubst and ProcSubst nodes that are in no other substitution *)
RECURSIVE OuterSubsts(_)
RECURSIVE OuterSubstsOf(_)
OuterSubsts(n) ==
  IF n.type \in {"CmdSubst", "ProcSubst"} THEN << n >>
  ELSE OuterSubstsOf(Kids(n))
OuterSubstsOf(ns) ==
  IF ns = <<>> THEN <<>>
  ELSE OuterSubsts(Head(ns)) \o OuterSubstsOf(Tail(ns))

(* the node a substitution part stands for: the statements of its raw text *)
SubstNode(part) ==
  IF part.type = "proc-subst"
  THEN [type |-> "ProcSubst", op |-> part.op,
        stmts |-> parse(part.raw, FALSE).ast.body]
  ELSE [type |-> "CmdSubst", stmts |-> parse(part.raw, FALSE).ast.body]

(* C23: every cmd-subst, backtick and proc-subst part of the word tokens   *)
(* is a CmdSubst or ProcSubst node of the returned AST that holds the      *)
(* parsed statements of its raw text; none is dropped, in elements         *)
(* [idx]=val of an array included                                          *)
C23_NoSubstitutionDropped ==
  Returned =>
    LET parts == TokenSubsts(ts.tokens, 1)
        nodes == OuterSubsts(ast)
    IN /\ Len(nodes) = Len(parts)
       /\ { nodes[k] : k \in 1..Len(nodes) }
            = { SubstNode(parts[k]) : k \in 1..Len(parts) }

(***************************************************************************)
(* Heredocs in sources whose lines end with CR LF.                         *)
(***************************************************************************)
MaxCrlfLines == 3

LineEnds == { <<NL>>, <<CR, NL>> }

(* c <<E, i body lines x, the delimiter line, j command lines d, each line *)
(* ended by eol                                                            *)
LinesSource(eol, i, j) ==
  <<"c", " ", "<", "<", "E">> \o eol \o Repeat(<<"x">> \o eol, i) \o <<"E">> \o eol
            \o Repeat(<<"d">> \o eol, j)

CrlfInit ==
  Start(AllBranches
        \cup { LinesSource(eol, i, j) :
                 eol \in LineEnds, i \in 0..MaxCrlfLines,
                 j \in 0..MaxCrlfLines })
SpecCrlf == CrlfInit /\ [][Next]_vars

Tokenized == pc \in {"parse", "assert", "done", "failed"} /\ ts.err = ""

C25_ItemsAbsentOnlyWithoutIn ==
  ( /\ Returned
    /\ Len(ast.body) = 1
    /\ ast.body[1].command.type \in {"ForClause", "SelectClause"} ) =>
    ("items" \notin DOMAIN ast.body[1].command)
      = ~( /\ ts.tokens[3].type = "word"
           /\ tokenPartsText(ts.tokens[3].parts) = <<"i", "n">> )

(***************************************************************************)
(* "!" at the start of a statement and among the words of a command.       *)
(***************************************************************************)
MaxBangParts == 4

BangParts == { <<"a">>, <<" ", "b">>, <<" ", "!">>, <<"!", " ">>, <<"[", " ">>, <<" ", "]">> }

BangInit == Start(AllBranches \cup Pieces(BangParts, MaxBangParts))
SpecBang == BangInit /\ [][Next]_vars

(* one command: a word first, then words and "!" only *)
WordsAndBangs(tokens) ==
  /\ Len(tokens) > 0
  /\ tokens[1].type = "word"
  /\ \A k \in 1..Len(tokens) :
       \/ /\ tokens[k].type = "word"
          /\ Len(tokens[k].parts) = 1
          /\ tokens[k].parts[1].type = "lit"
       \/ IsOpIn(tokens[k], {"!"})

(* the Words of the word tokens, in token order *)
TokenWords(tokens) ==
  LET ws == SelectSeq(tokens, LAMBDA t : t.type = "word")
  IN [k \in 1..Len(ws) |-> LitWord(ws[k].parts[1].value)]

(* C26: a "!" after the first word of a simple command neither ends the    *)
(* command nor starts a Statement: the source is one Statement that is not *)
(* negated, and the words after the "!" are words of the same command      *)
C26_BangInsideCommand ==
  (Ended /\ ts.err = "" /\ WordsAndBangs(ts.tokens)) =>
    /\ Returned
    /\ Len(ast.body) = 1
    /\ "negated" \notin DOMAIN ast.body[1]
    /\ ast.body[1].command.type = "SimpleCommand"
    /\ SelectSeq(Opt(ast.body[1].command, "words"),
                 LAMBDA w : w # LitWord(<<"!">>))
         = TokenWords(ts.tokens)

(***************************************************************************)
(* "#" at and away from a boundary.                                        *)
(***************************************************************************)
MaxHashParts == 4

HashParts ==
  { <<"#">>, <<">", ">">>, <<"a">>, <<" ">>, <<"(", "(", "1", ")", ")">>, <<"|">>, <<"(">>, <<NL>> }

HashInit == Start(AllBranches \cup Pieces(HashParts, MaxHashParts))
SpecHash == HashInit /\ [][Next]_vars

(* the main loop of the tokenizer stands on a "#" *)
AtHash == pc = "tokenize" /\ TokRunning(source, ts) /\ At(source, ts.i) = "#"

(* the position follows whitespace, a newline, an operator, a grouping     *)
(* symbol or the start of input                                            *)
FollowsBoundary ==
  \/ ts.i = 0
  \/ At(source, ts.i - 1) \in {" ", TAB, CR, NL}
  \/ /\ Len(ts.tokens) > 0
     /\ ts.tokens[Len(ts.tokens)].type \in {"op", "symbol"}

StartsWordWithHash ==
  /\ Len(ts'.tokens) = Len(ts.tokens) + 1
  /\ ts'.tokens[Len(ts'.tokens)].type = "word"
  /\ At(tokenPartsText(ts'.tokens[Len(ts'.tokens)].parts), 0) = "#"

StartsComment ==
  \/ ts'.tokens = ts.tokens
  \/ /\ Len(ts'.tokens) = Len(ts.tokens) + 1
     /\ ts'.tokens[Len(ts'.tokens)].type = "comment"

HashStep ==
  AtHash => IF FollowsBoundary THEN StartsComment ELSE StartsWordWithHash

(* C27: a "#" starts a comment only after whitespace, a newline, an        *)
(* operator, a grouping symbol or the start of input; at any other         *)
(* position, right after a redirect operator or an arithmetic command      *)
(* included, it is the first character of a word                           *)
C27_HashAtBoundaryOnly == [][HashStep]_vars

(***************************************************************************)
(* The raw slice of $(...), ${...}, <(...) and >(...), closed or not.      *)
(***************************************************************************)
MaxRawLen == 3

Openers == { <<"$", "(">>, <<"$", "{">>, <<"<", "(">>, <<">", "(">> }
Closer(opener) == IF opener = <<"$", "{">> THEN <<"}">> ELSE <<")">>
RawTexts == Pieces({ <<"a">>, <<"b">>, <<" ">> }, MaxRawLen)

(* the opener, the text, and the closer when closed *)
SliceSource(opener, text, closed) ==
  opener \o text \o (IF closed THEN Closer(opener) ELSE <<>>)

SliceInit ==
  Start(AllBranches
        \cup { SliceSource(o, t, c) :
                 o \in Openers, t \in RawTexts, c \in BOOLEAN })
SpecSlice == SliceInit /\ [][Next]_vars

(* the slice a part holds: the name of a braced parameter without          *)
(* operator, the raw text of a substitution                                *)
SliceOf(part) == IF part.type = "param" THEN part.name ELSE part.raw

(* C28: the slice captured for $(...), ${...}, <(...) and >(...) is the    *)
(* whole text between the opener and the closer, and the whole text after  *)
(* the opener when the input ends before the closer                        *)
C28_RawSliceIsWholeText ==
  \A o \in Openers : \A t \in RawTexts : \A c \in BOOLEAN :
    (Tokenized /\ source = SliceSource(o, t, c)) =>
      /\ Len(ts.tokens) = 1
      /\ ts.tokens[1].type = "word"
      /\ Len(ts.tokens[1].parts) = 1
      /\ SliceOf(ts.tokens[1].parts[1]) = t

(* the position parseProgram returns at for the raw text of a substitution *)
(* part, and the number of its tokens; -1 when tokenize or parseProgram    *)
(* throws                                                                  *)
InnerReturn(raw) ==
  LET t == tokenize(raw, FALSE)
      r == parseProgram(t.tokens, FALSE)
  IN IF t.err # "" \/ t.stuck \/ Bad(r) THEN [idx |-> -1, count |-> -1]
     ELSE [idx |-> r.p.idx, count |-> Len(t.tokens)]

(* C29: parseProgram returns only with every token consumed, its index     *)
(* equal to the number of tokens, in the top-level parse and in every      *)
(* nested parse of a substitution; assertEof never raises "Unexpected      *)
(* token"                                                                  *)
C29_ReturnsAtEndOfTokens ==
  /\ pc \in {"assert", "done"} => ps.idx = Len(ts.tokens)
  /\ error # "Unexpected token"
  /\ Tokenized =>
       \A k \in 1..Len(TokenSubsts(ts.tokens, 1)) :
         InnerReturn(TokenSubsts(ts.tokens, 1)[k].raw).idx
           = InnerReturn(TokenSubsts(ts.tokens, 1)[k].raw).count

C29_ReturnedWithNestedParse ==
  /\ pc = "assert"
  /\ Len(ts.tokens) >= 3
  /\ ps.idx = Len(ts.tokens)
  /\ \E k \in 1..Len(TokenSubsts(ts.tokens, 1)) :
       InnerReturn(TokenSubsts(ts.tokens, 1)[k].raw).count >= 2

(***************************************************************************)
(* Collection of heredoc bodies by the tokenizer.                          *)
(***************************************************************************)
MaxCollectParts == 4

CollectParts ==
  { <<"c", " ", "<", "<", "E", " ", "<", "<", "-", "F", NL>>, <<"c", " ", "<", "<", "E">>, <<NL>>, <<"x", NL, "E", NL>>, <<TAB, "F", NL>>, <<"E", NL>>,
    <<"x", NL>> }

CollectInit == Start(AllBranches \cup Pieces(CollectParts, MaxCollectParts))
SpecCollect == CollectInit /\ [][Next]_vars

IsCollected(t) ==
  t.type = "redir" /\ IsHeredocOp(t.op) /\ "_collected" \in DOMAIN t

(* the << and <<- redirects not collected yet that a word token follows *)
Pending(tokens) ==
  { k \in 1..Len(tokens) - 1 :
      /\ tokens[k].type = "redir" /\ IsHeredocOp(tokens[k].op)
      /\ ~IsCollected(tokens[k])
      /\ tokens[k + 1].type = "word" }

(* the lines of s from position i up to the first line that is the         *)
(* delimiter (tabs stripped for <<-), and the position after that line     *)
RECURSIVE LinesUntil(_, _, _, _)
LinesUntil(s, i, strip, delimiter) ==
  IF i >= Len(s) THEN [body |-> <<>>, next |-> i]
  ELSE LET nl == IndexOf(s, NL, i)
           e == IF nl = -1 THEN Len(s) ELSE nl
           line == IF strip THEN StripTabs(Slice(s, i, e)) ELSE Slice(s, i, e)
           next == IF e < Len(s) THEN e + 1 ELSE e
           rest == LinesUntil(s, next, strip, delimiter)
       IN IF line = delimiter THEN [body |-> <<>>, next |-> next]
          ELSE [body |-> line \o <<NL>> \o rest.body, next |-> rest.next]

(* the bodies of the pending redirects from token k on, the first of them  *)
(* starting at position i, each after the one before                       *)
RECURSIVE BodiesFrom(_, _, _, _)
BodiesFrom(s, i, tokens, k) ==
  IF k >= Len(tokens) THEN <<>>
  ELSE IF k \in Pending(tokens)
  THEN LET c == LinesUntil(s, i, tokens[k].op = "<<-",
                           tokenPartsText(tokens[k + 1].parts))
       IN << c.body >> \o BodiesFrom(s, c.next, tokens, k + 1)
  ELSE BodiesFrom(s, i, tokens, k + 1)

AtNewline ==
  pc = "tokenize" /\ TokRunning(source, ts) /\ At(source, ts.i) = NL

CollectStep ==
  /\ Len(TokenBodies(ts.tokens))
       = Cardinality({ k \in 1..Len(ts.tokens) : IsCollected(ts.tokens[k]) })
  /\ AtNewline =>
       /\ Len(ts'.tokens) = Len(ts.tokens) + 1 + Cardinality(Pending(ts.tokens))
       /\ \A k \in 1..Len(ts.tokens) :
            ts'.tokens[k] = IF k \in Pending(ts.tokens)
                            THEN ts.tokens[k] @@ [_collected |-> TRUE]
                            ELSE ts.tokens[k]
       /\ ts'.tokens[Len(ts.tokens) + 1] = [type |-> "op", value |-> ";"]
       /\ SubSeq(ts'.tokens, Len(ts.tokens) + 2, Len(ts'.tokens))
            = [m \in 1..Cardinality(Pending(ts.tokens)) |->
                 [type |-> "heredoc-body",
                  content |-> BodiesFrom(source, ts.i + 1, ts.tokens, 1)[m]]]
  /\ ~AtNewline =>
       /\ Len(ts'.tokens) >= Len(ts.tokens)
       /\ SubSeq(ts'.tokens, 1, Len(ts.tokens)) = ts.tokens
       /\ TokenBodies(ts'.tokens) = TokenBodies(ts.tokens)

(* C30: every << or <<- redirect token that a word token follows is        *)
(* collected once, at the first newline after it: the heredoc-body tokens  *)
(* are as many as the redirects marked collected, a newline collects the   *)
(* redirects not yet collected only, and the bodies pushed are those of    *)
(* the redirects in their order                                            *)
C30_CollectedOnceInOrder == [][CollectStep]_vars

C30_TwoBodiesInOrder ==
  /\ Len(TokenBodies(ts.tokens)) = 2
  /\ TokenBodies(ts.tokens)[1] = <<"x", NL>>
  /\ TokenBodies(ts.tokens)[2] = <<>>
  /\ ts.tokens[Len(ts.tokens)] = [type |-> "op", value |-> ";"]
  /\ ts.tokens[Len(ts.tokens) - 1].type = "heredoc-body"
  /\ ts.tokens[Len(ts.tokens) - 2].type = "heredoc-body"

====
